---- MODULE Spec2Model ----
(***************************************************************************)
(* Event-sourcing runtime of go-gadgets/eventsourcing: the aggregate base, *)
(* the key-value engine over the in-memory driver, and the snapshot        *)
(* middleware over the in-memory snapshot cache.                           *)
(***************************************************************************)
EXTENDS Integers, Sequences, FiniteSets, TLC

(* ------------------------------ bounds --------------------------------- *)
\* Most durable events the writers are allowed to build up, and the highest
\* sequence number an aggregate may reach.
MaxStream == 3
\* Longest uncommitted buffer.
MaxBuf == 2
\* The interval the snapshot middleware is configured with.
SnapInterval == 2

\* The keys of the store, and the keys aggregates are created for.
Keys == {"k1", "k2"}
AggKeys == {"k1"}

\* Largest limit given to Retry, and the most invocations of body that are
\* followed.
MaxRetryLimit == 3
MaxCalls == 5
\* Most registration calls made on a middleware wrapper.
MaxMiddleware == 3
\* Most handlers added to a distributor, and most calls of Handle followed.
MaxHandlers == 2
MaxReceived == 3
\* Most operations the oplog holds.
MaxFeed == 3

(* ------------------------------ events --------------------------------- *)
\* A Go type name is the list of its dot-separated segments
\* ("test.InitializeEvent" is <<"test", "InitializeEvent">>).  EventType
\* labels are names too, so that a qualified name and a label can be compared.
InitializeEventT == <<"test", "InitializeEvent">>
IncrementEventT == <<"test", "IncrementEvent">>
UnknownEventT == <<"test", "UnknownEventTypeExample">>

\* An event value: its Go type, its single integer field, and whether
\* encoding/json can marshal it (a float field holding NaN cannot be).
Ev(t, d, m) == [goType |-> t, data |-> d, ok |-> m]

EventPool ==
  { Ev(InitializeEventT, 1, TRUE),
    Ev(IncrementEventT, 1, TRUE),
    Ev(IncrementEventT, 2, FALSE),
    Ev(UnknownEventT, 0, TRUE) }

\* helpers.go NormalizeEventName: split on "." and keep the last segment.
NormalizeEventName(name) == <<name[Len(name)]>>

\* registry_standard.go RegisterEvent: events[label] = reflect.Type.
RegisterEvent(reg, goType) ==
  LET eventType == NormalizeEventName(goType)
  IN [l \in (DOMAIN reg) \cup {eventType} |->
        IF l = eventType THEN goType ELSE reg[l]]

\* The registry every aggregate and writer of the model is given: the test
\* registry, with InitializeEvent and IncrementEvent registered.
counterRegistry ==
  RegisterEvent(RegisterEvent(<<>>, InitializeEventT), IncrementEventT)

\* registry_standard.go GetEventType: the normalised label, and whether it
\* is registered.
GetEventType(reg, event) ==
  LET eventType == NormalizeEventName(event.goType)
  IN [eventType |-> eventType, found |-> eventType \in DOMAIN reg]

(* ------------------------------ errors --------------------------------- *)
Err(kind, key, seq) == [kind |-> kind, AggregateKey |-> key, EventSequence |-> seq]
Nil == Err("nil", "", 0)
\* NewConcurrencyFault that leaves EventSequence at its zero value.
NewConcurrencyFaultNoSequence(aggregateKey, eventSequence) ==
  Err("ConcurrencyFault", aggregateKey, 0)

\* fault.go NewConcurrencyFault
NewConcurrencyFault(aggregateKey, eventSequence) ==
  Err("ConcurrencyFault", aggregateKey, eventSequence)
\* fault.go IsConcurrencyFault
IsConcurrencyFault(err) == err.kind = "ConcurrencyFault"
\* fmt.Errorf results of the engine and of the snapshot middleware, and the
\* error encoding/json returns.
StoreErrorNoPrior == Err("StoreError: no value at committed sequence", "", 0)
StoreErrorModified == Err("StoreError: aggregate is modified", "", 0)
SnapErrorModified == Err("Snap error: aggregate is modified", "", 0)
UnknownEventError == Err("Could not find specified event type", "", 0)
MarshalError == Err("json: unsupported value", "", 0)
DecoderError == Err("mapstructure: result must be a pointer", "", 0)
SnapshotDecodeError == Err("mapstructure: cannot parse as int", "", 0)

(* ------------------------- in-memory driver ---------------------------- *)
\* An item of a stream: the label and the JSON body.  sequence is a history
\* field: the Sequence the engine assigned to the KeyedEvent that was stored.
Item(evt) ==
  [eventType |-> evt.EventType,
   body |-> [payload |-> evt.EventData.data],
   sequence |-> evt.Sequence]

\* checkExists that reports every sequence of a key as present.
checkExistsAlways(data, key, seq) == TRUE

\* memory store checkExists
checkExists(data, key, seq) == Len(data[key]) >= seq

\* putEvents that stores each event at the index of its sequence number,
\* dropping what the stream held from there on.
RECURSIVE putEventsOverwrites(_, _)
putEventsOverwrites(data, events) ==
  IF events = <<>> THEN [streams |-> data, err |-> Nil]
  ELSE LET evt == Head(events)
           stream == data[evt.Key]
           expectedLength == evt.Sequence - 1
           kept == SubSeq(stream, 1, expectedLength)
       IN IF ~evt.EventData.ok
            THEN [streams |-> data, err |-> MarshalError]
            ELSE putEventsOverwrites(
                   [data EXCEPT ![evt.Key] = Append(kept, Item(evt))],
                   Tail(events))

\* putEvents without the concurrency check.
RECURSIVE putEventsNoCheck(_, _)
putEventsNoCheck(data, events) ==
  IF events = <<>> THEN [streams |-> data, err |-> Nil]
  ELSE LET evt == Head(events)
           stream == data[evt.Key]
       IN IF ~evt.EventData.ok
            THEN [streams |-> data, err |-> MarshalError]
            ELSE putEventsNoCheck(
                   [data EXCEPT ![evt.Key] = Append(stream, Item(evt))],
                   Tail(events))

\* memory store putEvents: one event after the other, each written back to
\* the map before the next is looked at.
RECURSIVE putEvents(_, _)
putEvents(data, events) ==
  IF events = <<>> THEN [streams |-> data, err |-> Nil]
  ELSE LET evt == Head(events)
           stream == data[evt.Key]
           expectedLength == evt.Sequence - 1
       IN IF Len(stream) > expectedLength
            THEN [streams |-> data,
                  err |-> NewConcurrencyFault(evt.Key, evt.Sequence)]
          ELSE IF ~evt.EventData.ok
            THEN [streams |-> data, err |-> MarshalError]
          ELSE putEvents([data EXCEPT ![evt.Key] = Append(stream, Item(evt))],
                         Tail(events))

\* fetchEvents whose loop starts at index 0 whatever seq is.
fetchEventsFromStart(data, key, seq) ==
  LET stream == data[key]
  IN IF Len(stream) < seq THEN <<>>
     ELSE [i \in 1..Len(stream) |->
             LET index == i - 1
             IN [Key |-> key,
                 Sequence |-> seq + (1 + index),
                 EventType |-> stream[index + 1].eventType,
                 EventData |-> [payload |-> stream[index + 1].body.payload],
                 Stored |-> stream[index + 1].sequence]]

\* memory store fetchEvents: the items at indices seq.. of the stream, their
\* bodies parsed back into generic records.  Stored is a history field: the
\* sequence the item was written with.
fetchEvents(data, key, seq) ==
  LET stream == data[key]
  IN IF Len(stream) < seq THEN <<>>
     ELSE [i \in 1..(Len(stream) - seq) |->
             LET index == seq + i - 1
             IN [Key |-> key,
                 Sequence |-> seq + (1 + index),
                 EventType |-> stream[index + 1].eventType,
                 EventData |-> [payload |-> stream[index + 1].body.payload],
                 Stored |-> stream[index + 1].sequence]]

(* -------------------------- key-value engine --------------------------- *)
\* assignEventKeys that keys every entry with the last event of the buffer
\* (the loop variable's final value).
assignEventKeysLast(key, seq, registry, events) ==
  IF \E i \in 1..Len(events) : ~GetEventType(registry, events[i]).found
    THEN [target |-> <<>>, err |-> UnknownEventError]
    ELSE [target |-> [i \in 1..Len(events) |->
                        [Key |-> key,
                         Sequence |-> seq + (1 + (i - 1)),
                         EventType |->
                           GetEventType(registry, events[Len(events)]).eventType,
                         EventData |-> events[Len(events)]]],
          err |-> Nil]

\* assignEventKeys: the keyed events, or the error of the first event whose
\* type the registry does not know.
assignEventKeys(key, seq, registry, events) ==
  IF \E i \in 1..Len(events) : ~GetEventType(registry, events[i]).found
    THEN [target |-> <<>>, err |-> UnknownEventError]
    ELSE [target |-> [i \in 1..Len(events) |->
                        [Key |-> key,
                         Sequence |-> seq + (1 + (i - 1)),
                         EventType |-> GetEventType(registry, events[i]).eventType,
                         EventData |-> events[i]]],
          err |-> Nil]

\* A writer adapter: key, registry and GetUncommittedEvents.
Writer(key, seq, events) ==
  [key |-> key, registry |-> counterRegistry,
   committed |-> seq, events |-> events]

\* The check for a prior event made at the sequence before the committed one.
CommitCheckOffByOne(data, writer) ==
  IF writer.committed > 0
     /\ ~checkExists(data, writer.key, writer.committed - 1)
    THEN StoreErrorNoPrior
    ELSE Nil

\* store.CommitEvents, first part: the check for a prior event.
CommitCheck(data, writer) ==
  IF writer.committed > 0 /\ ~checkExists(data, writer.key, writer.committed)
    THEN StoreErrorNoPrior
    ELSE Nil

\* The second part with the remapping error ignored: the events keyed before
\* the unknown one are put.
CommitPutPartIgnoresError(data, writer) ==
  LET known == CHOOSE n \in 0..Len(writer.events) :
                 /\ \A i \in 1..n : GetEventType(writer.registry,
                                                  writer.events[i]).found
                 /\ n < Len(writer.events) =>
                      ~GetEventType(writer.registry, writer.events[n + 1]).found
      remapped == assignEventKeys(writer.key, writer.committed, writer.registry,
                                  SubSeq(writer.events, 1, known))
  IN putEvents(data, remapped.target)

\* store.CommitEvents, second part: remap and put.
CommitPutPart(data, writer) ==
  LET remapped == assignEventKeys(writer.key, writer.committed,
                                  writer.registry, writer.events)
  IN IF remapped.err # Nil
       THEN [streams |-> data, err |-> remapped.err]
       ELSE putEvents(data, remapped.target)

\* store.CommitEvents run without interruption.
CommitEvents(data, writer) ==
  LET errExists == CommitCheck(data, writer)
  IN IF errExists # Nil
       THEN [streams |-> data, err |-> errExists]
       ELSE CommitPutPart(data, writer)


\* Decoding of a fetched event in store.Refresh: the registry creates an
\* instance of the labelled type and the generic record is mapped into it.
\* For a label the registry does not know CreateEvent returns a map, which is
\* not a pointer, and the decoder cannot be built.
CreateEventKnown(registry, eventType) == eventType \in DOMAIN registry
DecodeEvent(registry, keyed) ==
  Ev(registry[keyed.EventType], keyed.EventData.payload, TRUE)

(* ------------------------------ aggregate ------------------------------ *)
\* The methods of SimpleAggregate that reflection enumerates: name prefix,
\* remainder of the name, parameter type, NumIn (receiver included), NumOut.
Method(prefix, rest, param, numIn, numOut) ==
  [prefix |-> prefix, rest |-> rest, param |-> param,
   numIn |-> numIn, numOut |-> numOut]
SimpleAggregateMethods ==
  { Method("Initialize", "", <<"string">>, 4, 0),
    Method("Handle", "InitializeCommand", <<"test", "InitializeCommand">>, 2, 2),
    Method("Handle", "IncrementCommand", <<"test", "IncrementCommand">>, 2, 2),
    Method("Replay", "InitializeEvent", InitializeEventT, 2, 0),
    Method("Replay", "IncrementEvent", IncrementEventT, 2, 0),
    Method("Replay", "EventWithInvalidReturnMapping",
           <<"test", "EventWithInvalidReturnMapping">>, 2, 1),
    Method("Replay", "EventWithTooManyArgumentsMapping",
           <<"test", "EventWithInvalidReturnMapping">>, 3, 0) }

ReplayMethodPrefix == "Replay"
HandleMethodPrefix == "Handle"

\* buildReplayMappings: eventReplay[eventType.String()] = method, for the
\* Replay-prefixed methods with two inputs and no output.
buildReplayMappings(methods) ==
  LET wired == {m \in methods : m.prefix = ReplayMethodPrefix
                                /\ m.numIn = 2 /\ m.numOut = 0}
  IN [name \in {m.param : m \in wired} |->
        (CHOOSE m \in wired : m.param = name).rest]

\* buildHandleMappings: commandHandlers[commandType.String()] = method.
buildHandleMappings(methods) ==
  LET wired == {m \in methods : m.prefix = HandleMethodPrefix
                                /\ m.numIn = 2 /\ m.numOut = 2}
  IN [name \in {m.param : m \in wired} |->
        (CHOOSE m \in wired : m.param = name).rest]

\* DefineReplayMethod: eventReplay[eventType] = replay.
DefineReplayMethod(agg, eventType, replay) ==
  [agg EXCEPT !.eventReplay =
     [l \in (DOMAIN agg.eventReplay) \cup {eventType} |->
        IF l = eventType THEN replay ELSE agg.eventReplay[l]]]

\* AggregateBase.Initialize on a new SimpleAggregate value.
InitializeBase(key, store) ==
  [key |-> key,
   sequenceNumber |-> 0,
   committedSequenceNumber |-> 0,
   eventReplay |-> <<>>,
   commandHandlers |-> <<>>,
   eventStore |-> store,
   uncomittedEvents |-> <<>>,
   CurrentCount |-> 0,
   TargetValue |-> 0]

\* AutomaticWireup
AutomaticWireup(agg, methods) ==
  [agg EXCEPT !.commandHandlers = buildHandleMappings(methods),
              !.eventReplay = buildReplayMappings(methods)]

\* SimpleAggregate.Initialize ("auto"), or the same followed by
\* DefineReplayMethod for the two registered labels ("defined").
NewAggregate(key, store, wiring) ==
  LET base == AutomaticWireup(InitializeBase(key, store), SimpleAggregateMethods)
  IN IF wiring = "auto" THEN base
     ELSE DefineReplayMethod(
            DefineReplayMethod(base, NormalizeEventName(InitializeEventT),
                               "InitializeEvent"),
            NormalizeEventName(IncrementEventT), "IncrementEvent")

\* The replay methods of SimpleAggregate.
ReplayFunction(agg, replay, event) ==
  IF replay = "InitializeEvent"
    THEN [agg EXCEPT !.TargetValue = event.data]
  ELSE IF replay = "IncrementEvent"
    THEN [agg EXCEPT !.CurrentCount = agg.CurrentCount + event.data]
  ELSE agg

\* applyEventInternal whose increment of sequenceNumber is not deferred and
\* is skipped by the early returns.
applyEventInternalNoDefer(agg, event) ==
  LET t == GetEventType(counterRegistry, event)
  IN IF t.found /\ t.eventType \in DOMAIN agg.eventReplay
       THEN [ReplayFunction(agg, agg.eventReplay[t.eventType], event)
               EXCEPT !.sequenceNumber = agg.sequenceNumber + 1]
       ELSE agg

\* applyEventInternal: replay when the label is registered and mapped; the
\* deferred increment of sequenceNumber runs on every path.
applyEventInternal(agg, event) ==
  LET t == GetEventType(counterRegistry, event)
      replayed ==
        IF t.found /\ t.eventType \in DOMAIN agg.eventReplay
          THEN ReplayFunction(agg, agg.eventReplay[t.eventType], event)
          ELSE agg
  IN [replayed EXCEPT !.sequenceNumber = agg.sequenceNumber + 1]

\* AggregateBase.ApplyEvent
ApplyEventOp(agg, event) ==
  LET applied == applyEventInternal(agg, event)
  IN [applied EXCEPT !.uncomittedEvents = Append(agg.uncomittedEvents, event)]

RECURSIVE ApplyAll(_, _)
ApplyAll(agg, events) ==
  IF events = <<>> THEN agg
  ELSE ApplyAll(ApplyEventOp(agg, Head(events)), Tail(events))

\* aggregateBaseLoaderAdapter.ReplayEvent
ReplayEvent(agg, event) ==
  LET applied == applyEventInternal(agg, event)
  IN [applied EXCEPT !.committedSequenceNumber = agg.committedSequenceNumber + 1]

RECURSIVE ReplayAll(_, _)
ReplayAll(agg, events) ==
  IF events = <<>> THEN agg
  ELSE ReplayAll(ReplayEvent(agg, Head(events)), Tail(events))

\* AggregateBase.isDirty
isDirty(agg) == Len(agg.uncomittedEvents) > 0

\* json.Marshal of the SimpleAggregate followed by json.Unmarshal into a map:
\* the exported fields under their json tags.
SnapshotOf(agg) ==
  [current_count |-> agg.CurrentCount, target_value |-> agg.TargetValue]

\* RestoreSnapshot that decodes the state but leaves both counters alone.
RestoreSnapshotKeepsSequence(agg, sequence, snapshot) ==
  [agg EXCEPT !.CurrentCount = snapshot.current_count,
              !.TargetValue = snapshot.target_value]

\* A snapshot value the weakly typed decoder cannot turn into an int (a
\* string that is not a number), and the values it can.
Undecodable == -1
Decodable(value) == value # Undecodable

\* errDecode of RestoreSnapshot: the decoder reports the fields it could not
\* convert.
RestoreSnapshotError(snapshot) ==
  IF Decodable(snapshot.current_count) /\ Decodable(snapshot.target_value)
    THEN Nil
    ELSE SnapshotDecodeError

\* aggregateBaseLoaderAdapter.RestoreSnapshot: decode the map into the state,
\* field by field, then move both counters to the snapshot's sequence when
\* the decoder reported no error.
RestoreSnapshot(agg, sequence, snapshot) ==
  LET decoded ==
        [agg EXCEPT !.CurrentCount = IF Decodable(snapshot.current_count)
                                       THEN snapshot.current_count ELSE @,
                    !.TargetValue = IF Decodable(snapshot.target_value)
                                      THEN snapshot.target_value ELSE @]
  IN IF RestoreSnapshotError(snapshot) = Nil
       THEN [decoded EXCEPT !.sequenceNumber = sequence,
                            !.committedSequenceNumber = sequence]
       ELSE decoded

\* The aggregate as a writer adapter (aggregateBaseStoreAdapter).
WriterOf(agg) ==
  Writer(agg.key, agg.committedSequenceNumber, agg.uncomittedEvents)

\* store.Refresh of the key-value engine.  replayed lists what ReplayEvent
\* received, with the stored sequence of each event.
EngineRefresh(data, agg) ==
  IF isDirty(agg)
    THEN [agg |-> agg, err |-> StoreErrorModified, replayed |-> <<>>]
  ELSE LET loaded == fetchEvents(data, agg.key, agg.sequenceNumber)
       IN IF \E i \in 1..Len(loaded) :
               ~CreateEventKnown(counterRegistry, loaded[i].EventType)
            THEN [agg |-> agg, err |-> DecoderError, replayed |-> <<>>]
            ELSE LET toApply == [i \in 1..Len(loaded) |->
                                   DecodeEvent(counterRegistry, loaded[i])]
                 IN [agg |-> ReplayAll(agg, toApply),
                     err |-> Nil,
                     replayed |-> [i \in 1..Len(loaded) |->
                                     [event |-> toApply[i],
                                      stored |-> loaded[i].Stored]]]

(* ------------------------- snapshot middleware ------------------------- *)
NoSnap == [Sequence |-> -1, State |-> SnapshotOf(InitializeBase("", ""))]

\* memorysnap get / put / purge
get(cache, key) == cache[key]
\* put that stores the snapshot under the sequence after the one given.
putAhead(cache, key, seq, data) ==
  [cache EXCEPT ![key] = [Sequence |-> seq + 1, State |-> data]]
put(cache, key, seq, data) ==
  [cache EXCEPT ![key] = [Sequence |-> seq, State |-> data]]
\* The error of a Purge callback whose backend cannot be reached (the Redis,
\* DynamoDB and MongoDB caches return their client's error; the in-memory
\* cache never fails).
PurgeFailed == Err("snapshot purge failed", "", 0)

\* purge that leaves the entry in the map.
purgeKeepsEntry(cache, key) == cache

purge(cache, key) == [cache EXCEPT ![key] = NoSnap]

\* refresh that looks for a snapshot before it looks at IsDirty.
SnapRefreshRestoresFirst(cache, parameters, data, agg) ==
  LET snap == get(cache, agg.key)
  IN IF snap # NoSnap
       THEN LET restoredAgg == RestoreSnapshot(agg, snap.Sequence, snap.State)
            IN IF isDirty(agg)
                 THEN [agg |-> restoredAgg, err |-> SnapErrorModified,
                       replayed |-> <<>>, restored |-> TRUE]
                 ELSE IF parameters.Lazy
                   THEN [agg |-> restoredAgg, err |-> Nil,
                         replayed |-> <<>>, restored |-> TRUE]
                   ELSE EngineRefresh(data, restoredAgg) @@ [restored |-> TRUE]
       ELSE EngineRefresh(data, agg) @@ [restored |-> FALSE]

\* refresh that in lazy mode goes on to next() after restoring the snapshot.
SnapRefreshLazyCallsNext(cache, parameters, data, agg) ==
  IF isDirty(agg)
    THEN [agg |-> agg, err |-> SnapErrorModified, replayed |-> <<>>,
          restored |-> FALSE]
  ELSE LET snap == get(cache, agg.key)
       IN IF snap # NoSnap
            THEN EngineRefresh(data,
                               RestoreSnapshot(agg, snap.Sequence, snap.State))
                   @@ [restored |-> TRUE]
            ELSE EngineRefresh(data, agg) @@ [restored |-> FALSE]

\* snapbase middleware.refresh around the engine's Refresh.  When
\* RestoreSnapshot returns an error the refresh returns nil at once.
SnapRefresh(cache, parameters, data, agg) ==
  IF isDirty(agg)
    THEN [agg |-> agg, err |-> SnapErrorModified, replayed |-> <<>>,
          restored |-> FALSE]
  ELSE LET snap == get(cache, agg.key)
       IN IF snap # NoSnap
            THEN LET restoredAgg == RestoreSnapshot(agg, snap.Sequence, snap.State)
                     errSnap == RestoreSnapshotError(snap.State)
                 IN IF errSnap # Nil
                      THEN [agg |-> restoredAgg, err |-> Nil,
                            replayed |-> <<>>, restored |-> TRUE]
                    ELSE IF parameters.Lazy
                      THEN [agg |-> restoredAgg, err |-> Nil,
                            replayed |-> <<>>, restored |-> TRUE]
                      ELSE EngineRefresh(data, restoredAgg) @@ [restored |-> TRUE]
            ELSE EngineRefresh(data, agg) @@ [restored |-> FALSE]

\* AggregateBase.Refresh through the aggregate's store.
RefreshOp(cache, parameters, data, agg) ==
  IF agg.eventStore = "snap"
    THEN SnapRefresh(cache, parameters, data, agg)
    ELSE EngineRefresh(data, agg) @@ [restored |-> FALSE]

\* middleware.commit that snaps only beyond the boundary.
SnapCommitTailStrict(cache, parameters, agg, errInner) ==
  IF errInner # Nil
    THEN [snaps |-> IF IsConcurrencyFault(errInner) /\ parameters.Lazy
                      THEN purge(cache, agg.key) ELSE cache,
          err |-> errInner,
          putCalled |-> FALSE,
          purgeCalled |-> IsConcurrencyFault(errInner) /\ parameters.Lazy]
  ELSE LET currentSequenceNumber == agg.committedSequenceNumber
           eventCount == Len(agg.uncomittedEvents)
           nextSnap == currentSequenceNumber
                         - (currentSequenceNumber % parameters.SnapInterval)
                         + parameters.SnapInterval
           writeSnap == parameters.Lazy
                          \/ currentSequenceNumber + eventCount > nextSnap
       IN [snaps |-> IF writeSnap
                       THEN put(cache, agg.key,
                                currentSequenceNumber + eventCount,
                                SnapshotOf(agg))
                       ELSE cache,
           err |-> Nil,
           putCalled |-> writeSnap,
           purgeCalled |-> FALSE]

\* middleware.commit that labels the snapshot with the boundary it reached
\* instead of the sequence the commit ended at.
SnapCommitTailPutsBoundary(cache, parameters, agg, errInner) ==
  IF errInner # Nil
    THEN [snaps |-> IF IsConcurrencyFault(errInner) /\ parameters.Lazy
                      THEN purge(cache, agg.key) ELSE cache,
          err |-> errInner,
          putCalled |-> FALSE,
          purgeCalled |-> IsConcurrencyFault(errInner) /\ parameters.Lazy]
  ELSE LET currentSequenceNumber == agg.committedSequenceNumber
           eventCount == Len(agg.uncomittedEvents)
           nextSnap == currentSequenceNumber
                         - (currentSequenceNumber % parameters.SnapInterval)
                         + parameters.SnapInterval
           writeSnap == parameters.Lazy
                          \/ currentSequenceNumber + eventCount >= nextSnap
       IN [snaps |-> IF writeSnap
                       THEN put(cache, agg.key,
                                IF parameters.Lazy
                                  THEN currentSequenceNumber + eventCount
                                  ELSE nextSnap,
                                SnapshotOf(agg))
                       ELSE cache,
           err |-> Nil,
           putCalled |-> writeSnap,
           purgeCalled |-> FALSE]

\* middleware.commit that purges on a concurrency fault whatever Lazy is.
SnapCommitTailPurgesAlways(cache, parameters, agg, errInner) ==
  IF errInner # Nil
    THEN [snaps |-> IF IsConcurrencyFault(errInner)
                      THEN purge(cache, agg.key) ELSE cache,
          err |-> errInner,
          putCalled |-> FALSE,
          purgeCalled |-> IsConcurrencyFault(errInner)]
  ELSE LET currentSequenceNumber == agg.committedSequenceNumber
           eventCount == Len(agg.uncomittedEvents)
           nextSnap == currentSequenceNumber
                         - (currentSequenceNumber % parameters.SnapInterval)
                         + parameters.SnapInterval
           writeSnap == parameters.Lazy
                          \/ currentSequenceNumber + eventCount >= nextSnap
       IN [snaps |-> IF writeSnap
                       THEN put(cache, agg.key,
                                currentSequenceNumber + eventCount,
                                SnapshotOf(agg))
                       ELSE cache,
           err |-> Nil,
           putCalled |-> writeSnap,
           purgeCalled |-> FALSE]

\* snapbase middleware.commit after next() returned errInner: purge on a
\* concurrency fault in lazy mode, otherwise decide whether to snap and put.
\* putCalled and purgeCalled record whether Put and Purge were invoked.
SnapCommitTail(cache, parameters, agg, errInner) ==
  IF errInner # Nil
    THEN IF IsConcurrencyFault(errInner) /\ parameters.Lazy
           THEN LET errPurge == parameters.PurgeError
                IN IF errPurge # Nil
                     THEN [snaps |-> cache, err |-> errPurge,
                           putCalled |-> FALSE, purgeCalled |-> TRUE]
                     ELSE [snaps |-> purge(cache, agg.key), err |-> errInner,
                           putCalled |-> FALSE, purgeCalled |-> TRUE]
           ELSE [snaps |-> cache, err |-> errInner,
                 putCalled |-> FALSE, purgeCalled |-> FALSE]
  ELSE LET currentSequenceNumber == agg.committedSequenceNumber
           eventCount == Len(agg.uncomittedEvents)
           nextSnap == currentSequenceNumber
                         - (currentSequenceNumber % parameters.SnapInterval)
                         + parameters.SnapInterval
           writeSnap == parameters.Lazy
                          \/ currentSequenceNumber + eventCount >= nextSnap
       IN [snaps |-> IF writeSnap
                       THEN put(cache, agg.key,
                                currentSequenceNumber + eventCount,
                                SnapshotOf(agg))
                       ELSE cache,
           err |-> Nil,
           putCalled |-> writeSnap,
           purgeCalled |-> FALSE]

\* Commit that clears the buffer but leaves committedSequenceNumber alone.
CommitTailKeepsCommitted(agg, err) ==
  IF err # Nil THEN agg
  ELSE [agg EXCEPT !.uncomittedEvents = <<>>]

\* Commit that empties the buffer whatever the store returned.
CommitTailAlwaysClears(agg, err) ==
  [agg EXCEPT !.uncomittedEvents = <<>>,
              !.committedSequenceNumber =
                 IF err # Nil THEN agg.committedSequenceNumber
                 ELSE agg.sequenceNumber]

\* AggregateBase.Commit after the store's CommitEvents returned err.
CommitTail(agg, err) ==
  IF err # Nil THEN agg
  ELSE [agg EXCEPT !.uncomittedEvents = <<>>,
                   !.committedSequenceNumber = agg.sequenceNumber]


(* ------------------------------ commands ------------------------------- *)
InitializeCommandT == <<"test", "InitializeCommand">>
IncrementCommandT == <<"test", "IncrementCommand">>
UnsupportedCommandT == <<"test", "UnsupportedCommand">>
\* A command value: its Go type, its integer field, and whether the domain
\* rules of its handler reject it.
Commands ==
  { [goType |-> InitializeCommandT, data |-> 1, rejected |-> FALSE],
    [goType |-> InitializeCommandT, data |-> 1, rejected |-> TRUE],
    [goType |-> IncrementCommandT, data |-> 1, rejected |-> FALSE],
    [goType |-> UnsupportedCommandT, data |-> 0, rejected |-> FALSE] }

UnsupportedCommandError == Err("Unsupported command type", "", 0)
ClosureError == Err("closure failed", "", 0)
HandlerError == Err("handler rejected the command", "", 0)

\* The command handlers of SimpleAggregate, as the CommandHandleFunc that
\* buildHandleMappings wraps around them returns their two results:
\* HandleInitializeCommand returns an InitializeEvent, HandleIncrementCommand
\* returns the IncrementCommand itself as its event; the error is the
\* handler's verdict on the command.
CommandHandler(handler, command) ==
  [events |-> IF handler = "InitializeCommand"
                THEN <<Ev(InitializeEventT, command.data, TRUE)>>
                ELSE <<Ev(IncrementCommandT, command.data, TRUE)>>,
   err |-> IF command.rejected THEN HandlerError ELSE Nil]

\* handleInternal that applies the handler's events before it looks at the
\* handler's error.
handleInternalAppliesFirst(agg, command) ==
  LET commandType == command.goType
  IN IF commandType \notin DOMAIN agg.commandHandlers
       THEN [agg |-> agg, err |-> UnsupportedCommandError]
       ELSE LET result == CommandHandler(agg.commandHandlers[commandType],
                                         command)
            IN [agg |-> ApplyAll(agg, result.events), err |-> result.err]

\* AggregateBase.handleInternal
handleInternal(agg, command) ==
  LET commandType == command.goType
  IN IF commandType \notin DOMAIN agg.commandHandlers
       THEN [agg |-> agg, err |-> UnsupportedCommandError]
       ELSE LET result == CommandHandler(agg.commandHandlers[commandType],
                                         command)
            IN IF result.err # Nil
                 THEN [agg |-> agg, err |-> result.err]
                 ELSE [agg |-> ApplyAll(agg, result.events), err |-> Nil]

\* The callback given to Run: either one that applies events and then
\* returns fail, or the one Handle builds around handleInternal.
ApplyClosure(events, fail) ==
  [kind |-> "apply", events |-> events, fail |-> fail,
   command |-> CHOOSE c \in Commands : c.goType = UnsupportedCommandT]
HandleClosure(command) ==
  [kind |-> "handle", events |-> <<>>, fail |-> FALSE, command |-> command]
RunCallback(agg, closure) ==
  IF closure.kind = "handle" THEN handleInternal(agg, closure.command)
  ELSE [agg |-> ApplyAll(agg, closure.events),
        err |-> IF closure.fail THEN ClosureError ELSE Nil]

(* ------------------------------- Retry --------------------------------- *)
\* fault.go NewDomainFault
NewDomainFault(aggregateKey) == Err("DomainFault", aggregateKey, 0)

\* Retry before it was ever called, and Retry entered with a limit: count is
\* 1 and lastError nil.  results lists what body returned, call by call.
NoRetry ==
  [running |-> FALSE, limit |-> 0, count |-> 1, lastError |-> Nil,
   results |-> <<>>, returned |-> FALSE, value |-> Nil]
RetryEntry(limit) ==
  [running |-> TRUE, limit |-> limit, count |-> 1, lastError |-> Nil,
   results |-> <<>>, returned |-> FALSE, value |-> Nil]

\* Retry's return statement.
RetryReturn(r, value) ==
  [r EXCEPT !.running = FALSE, !.returned = TRUE, !.value = value]

\* One pass of the loop that retries after every error.
RetryLoopAnyError(r, outcome) ==
  LET called == [r EXCEPT !.lastError = outcome,
                          !.results = Append(r.results, outcome)]
  IN IF called.lastError = Nil THEN RetryReturn(called, Nil)
     ELSE IF called.count = called.limit
       THEN RetryReturn(called, called.lastError)
     ELSE [called EXCEPT !.count = called.count + 1]

\* One pass of Retry's loop, body returning outcome.
RetryLoop(r, outcome) ==
  LET called == [r EXCEPT !.lastError = outcome,
                          !.results = Append(r.results, outcome)]
  IN IF called.lastError = Nil THEN RetryReturn(called, Nil)
     ELSE IF ~IsConcurrencyFault(called.lastError)
       THEN RetryReturn(called, called.lastError)
     ELSE IF called.count = called.limit
       THEN RetryReturn(called, called.lastError)
     ELSE [called EXCEPT !.count = called.count + 1]

\* The body the counter example hands to Retry, run without interruption: a
\* new aggregate is initialised on the snapshot store and Run with a callback
\* that applies one increment; what Run returns is returned.
RetryBody(cache, parameters, data, key) ==
  LET fresh == NewAggregate(key, "snap", "defined")
      r == RefreshOp(cache, parameters, data, fresh)
      m == RunCallback(r.agg,
                       ApplyClosure(<<Ev(IncrementEventT, 1, TRUE)>>, FALSE))
      c == CommitEvents(data, WriterOf(m.agg))
      t == SnapCommitTail(cache, parameters, m.agg, c.err)
  IN IF r.err # Nil
       THEN [snaps |-> cache, streams |-> data, err |-> r.err, agg |-> r.agg]
     ELSE IF m.err # Nil
       THEN [snaps |-> cache, streams |-> data, err |-> m.err, agg |-> m.agg]
     ELSE [snaps |-> t.snaps, streams |-> c.streams, err |-> t.err,
           agg |-> CommitTail(m.agg, t.err)]

(* ------------------------- middleware wrapper -------------------------- *)
\* A commit or refresh middleware is a name and whether it calls next; a
\* cleanup callback is a name and whether it returns an error.  The nil
\* function is NilFunc.
NilFunc == [name |-> "nil", callsNext |-> FALSE, fails |-> FALSE]
Middleware(name, callsNext) ==
  [name |-> name, callsNext |-> callsNext, fails |-> FALSE]
Cleanup(name, fails) == [name |-> name, callsNext |-> FALSE, fails |-> fails]
MiddlewareError(name) == Err("middleware did not call next", name, 0)
CleanupError(name) == Err("cleanup failed", name, 0)

\* NewMiddlewareWrapper.  op, trace and err are the last call made on the
\* wrapper, the functions it entered in order ("inner" for the wrapped
\* store) and what it returned; registered counts the registration calls.
NoWrapper ==
  [cleanup |-> <<>>, commit |-> <<>>, refresh |-> <<>>,
   op |-> "none", trace |-> <<>>, err |-> Nil, registered |-> 0]

\* HandleCleanup, HandleCommit, HandleRefresh: append unless nil.
HandleCleanup(w, cleanup) ==
  IF cleanup = NilFunc THEN w
  ELSE [w EXCEPT !.cleanup = Append(w.cleanup, cleanup)]
HandleCommit(w, middleware) ==
  IF middleware = NilFunc THEN w
  ELSE [w EXCEPT !.commit = Append(w.commit, middleware)]
HandleRefresh(w, middleware) ==
  IF middleware = NilFunc THEN w
  ELSE [w EXCEPT !.refresh = Append(w.refresh, middleware)]

\* Use
Use(w, commit, refresh, cleanup) ==
  HandleRefresh(HandleCommit(HandleCleanup(w, cleanup), commit), refresh)

\* A chain that enters the middlewares in registration order.
RECURSIVE ChainFifo(_, _)
ChainFifo(list, index) ==
  IF index = 0 THEN [trace |-> <<"inner">>, err |-> Nil]
  ELSE LET curr == list[Len(list) - index + 1]
       IN IF curr.callsNext
            THEN LET previous == ChainFifo(list, index - 1)
                 IN [trace |-> <<curr.name>> \o previous.trace,
                     err |-> previous.err]
            ELSE [trace |-> <<curr.name>>, err |-> MiddlewareError(curr.name)]

\* The chain wrapper.CommitEvents and wrapper.Refresh have built after the
\* loop pass for list[index] (index 0: the base function calling the inner
\* store), called: list[index] is entered with the chain before it as next.
RECURSIVE Chain(_, _)
Chain(list, index) ==
  IF index = 0 THEN [trace |-> <<"inner">>, err |-> Nil]
  ELSE LET curr == list[index]
       IN IF curr.callsNext
            THEN LET previous == Chain(list, index - 1)
                 IN [trace |-> <<curr.name>> \o previous.trace,
                     err |-> previous.err]
            ELSE [trace |-> <<curr.name>>, err |-> MiddlewareError(curr.name)]

\* wrapper.Close from cleanup[index] on: return at the first error, and
\* close the inner store after the last cleanup.
RECURSIVE CloseFrom(_, _)
CloseFrom(cleanup, index) ==
  IF index > Len(cleanup) THEN [trace |-> <<"inner">>, err |-> Nil]
  ELSE LET c == cleanup[index]
       IN IF c.fails
            THEN [trace |-> <<c.name>>, err |-> CleanupError(c.name)]
            ELSE LET rest == CloseFrom(cleanup, index + 1)
                 IN [trace |-> <<c.name>> \o rest.trace, err |-> rest.err]

(* ------------------------- publish middleware ------------------------- *)
\* The error an EventPublisher returns when it cannot publish.
PublishError == Err("publish failed", "", 0)

\* A publisher that has received no call.  log lists the calls of Publish
\* with what each returned.
NoPublisher == [log |-> <<>>]

\* The loop of the commit middleware that labels the first event with the
\* committed sequence itself.
PublishEachFromCommitted(key, seq, events, failAt) ==
  LET made == IF failAt \in 1..Len(events) THEN failAt ELSE Len(events)
  IN [calls |-> [i \in 1..made |->
                   [key |-> key, seq |-> seq + (i - 1), event |-> events[i],
                    err |-> IF i = failAt THEN PublishError ELSE Nil]],
      err |-> IF failAt \in 1..Len(events) THEN PublishError ELSE Nil]

\* The loop of the commit middleware that goes on after a failed Publish and
\* returns the first error at the end.
PublishEachKeepsGoing(key, seq, events, failAt) ==
  [calls |-> [i \in 1..Len(events) |->
                [key |-> key, seq |-> seq + (1 + (i - 1)), event |-> events[i],
                 err |-> IF i = failAt THEN PublishError ELSE Nil]],
   err |-> IF failAt \in 1..Len(events) THEN PublishError ELSE Nil]

\* The loop of the commit middleware: Publish(key, seq + 1 + index, event)
\* for each event of the buffer, returning at the first error.  failAt is
\* the position of the event whose Publish fails, if any.
PublishEach(key, seq, events, failAt) ==
  LET made == IF failAt \in 1..Len(events) THEN failAt ELSE Len(events)
  IN [calls |-> [i \in 1..made |->
                   LET index == i - 1
                   IN [key |-> key, seq |-> seq + (1 + index),
                       event |-> events[i],
                       err |-> IF i = failAt THEN PublishError ELSE Nil]],
      err |-> IF failAt \in 1..Len(events) THEN PublishError ELSE Nil]

\* The commit middleware of publish.Create around the engine's CommitEvents:
\* next() first, and the loop only when it returned nil.
PublishCommit(data, writer, failAt) ==
  LET r == CommitEvents(data, writer)
      p == PublishEach(writer.key, writer.committed, writer.events, failAt)
  IN IF r.err # Nil
       THEN [streams |-> r.streams, calls |-> <<>>, err |-> r.err,
             errNext |-> r.err]
       ELSE [streams |-> r.streams, calls |-> p.calls, err |-> p.err,
             errNext |-> Nil]

\* The refresh middleware of publish.Create: next() and nothing else.
PublishRefresh(data, agg) == EngineRefresh(data, agg)

(* ----------------------- in-process distributor ----------------------- *)
\* The domain the test registry was created with.
Domain == "Testing"

\* An EventHandler: the logging handler of the tests, which records the
\* event and returns nil, or a handler that returns an error.
Handler(name, fails) == [name |-> name, fails |-> fails]
EventHandlerError(name) == Err("handler failed", name, 0)
UnknownPublishedEventError == Err("Could not find event type", "", 0)

\* inproc.Create: no handlers, enabled at its zero value.  received lists
\* the calls of Handle, handler by handler in the order they were made;
\* lastStartStop and lastPublished are history fields: which of Start and
\* Stop was called last, and the event of the last call of Publish.
Create(registry) ==
  [enabled |-> FALSE, handlers |-> <<>>, registry |-> registry,
   received |-> <<>>, lastStartStop |-> "none", lastPublished |-> <<>>]

\* distributor.AddHandler
AddHandler(d, handler) == [d EXCEPT !.handlers = Append(d.handlers, handler)]

\* distributor.Start
Start(d) == [d EXCEPT !.enabled = TRUE, !.lastStartStop = "Start"]

\* Stop that leaves the distributor enabled.
StopKeepsEnabled(d) == [d EXCEPT !.lastStartStop = "Stop"]

\* distributor.Stop
Stop(d) == [d EXCEPT !.enabled = FALSE, !.lastStartStop = "Stop"]

\* The loop of Publish over the handlers from index on: Handle is called on
\* each in turn and the first error is returned.
RECURSIVE Fanout(_, _, _)
Fanout(handlers, index, toPublish) ==
  IF index > Len(handlers) THEN [calls |-> <<>>, err |-> Nil]
  ELSE LET handler == handlers[index]
           call == [handler |-> handler.name, event |-> toPublish]
       IN IF handler.fails
            THEN [calls |-> <<call>>, err |-> EventHandlerError(handler.name)]
            ELSE LET rest == Fanout(handlers, index + 1, toPublish)
                 IN [calls |-> <<call>> \o rest.calls, err |-> rest.err]

\* distributor.Publish
Publish(d, key, sequence, event) ==
  IF ~d.enabled \/ Len(d.handlers) = 0
    THEN [dist |-> d, err |-> Nil]
  ELSE LET t == GetEventType(d.registry, event)
       IN IF ~t.found
            THEN [dist |-> d, err |-> UnknownPublishedEventError]
            ELSE LET toPublish == [Domain |-> Domain,
                                   Type |-> t.eventType,
                                   Key |-> key,
                                   Sequence |-> sequence,
                                   Data |-> event]
                     f == Fanout(d.handlers, 1, toPublish)
                 IN [dist |-> [d EXCEPT !.received = d.received \o f.calls],
                     err |-> f.err]

(* ------------------------- Mongo oplog tailer ------------------------- *)
\* An oplog operation as the tailer sees it.  "insert" is an insert of a
\* decodable event into the watched collection, "undecodable" an insert there
\* that decodeOpLogEntry rejects, "filtered" anything the switch skips (no
\* data, not an insert, another database or collection).  The operation at
\* index i of the feed carries timestamp i.

\* The initial positions a tracker can be created with.
InitialPositionTrimHorizon == -2
InitialPositionEdge == -1

TrackerError == Err("tracker upsert failed", "", 0)

StartPosition(tracker) ==
  IF ~tracker.stored THEN tracker.initial ELSE tracker.position

\* The upsert either stores the position or fails and stores nothing.
UpdatePosition(tracker, position, ok) ==
  IF ok
    THEN [tracker |-> [tracker EXCEPT !.stored = TRUE, !.position = position],
          err |-> Nil]
    ELSE [tracker |-> tracker, err |-> TrackerError]

\* gtm's After callback: the timestamp after which operations are delivered.
After(initial, feed) ==
  IF initial = InitialPositionTrimHorizon THEN 0
  ELSE IF initial = InitialPositionEdge THEN Len(feed)
  ELSE initial

\* What the last pass of the loop did.
NoOp == [ts |-> 0, outcome |-> "none", updated |-> FALSE, position |-> 0]

\* The tailer, its tracker and the oplog it reads.  cursor is the timestamp
\* of the last operation taken from OpC; published is the set of timestamps
\* whose Publish returned nil.  The tracker has no record stored yet.
CreateTailer(initialPosition) ==
  [feed |-> <<>>, running |-> FALSE, cursor |-> 0,
   tracker |-> [initial |-> initialPosition, stored |-> FALSE,
               position |-> 0],
   published |-> {},
   last |-> NoOp]

CreateOpLogPublisherFromSession(t) ==
  [t EXCEPT !.running = TRUE,
            !.cursor = After(StartPosition(t.tracker), t.feed),
            !.last = NoOp]

\* A variant that records the position whether or not Publish succeeded.
runOpLogPublisherIgnoresPublishError(t, publishOk, updateOk) ==
  LET ts == t.cursor + 1
      op == t.feed[ts]
      taken == [t EXCEPT !.cursor = ts]
      update == UpdatePosition(t.tracker, ts, updateOk)
  IN  IF op = "filtered"
        THEN [taken EXCEPT !.last = [ts |-> ts, outcome |-> "filtered",
                                     updated |-> FALSE, position |-> 0]]
      ELSE IF op = "undecodable"
        THEN [taken EXCEPT !.last = [ts |-> ts, outcome |-> "undecodable",
                                     updated |-> FALSE, position |-> 0]]
      ELSE [taken EXCEPT
              !.published = IF publishOk THEN @ \cup {ts} ELSE @,
              !.tracker = update.tracker,
              !.last = [ts |-> ts,
                        outcome |-> IF publishOk THEN "published"
                                    ELSE "publish failed",
                        updated |-> TRUE, position |-> ts]]

\* One pass of the loop of runOpLogPublisher on the next operation of OpC.
runOpLogPublisher(t, publishOk, updateOk) ==
  LET ts == t.cursor + 1
      op == t.feed[ts]
      taken == [t EXCEPT !.cursor = ts]
      update == UpdatePosition(t.tracker, ts, updateOk)
  IN  IF op = "filtered"
        THEN [taken EXCEPT !.last = [ts |-> ts, outcome |-> "filtered",
                                     updated |-> FALSE, position |-> 0]]
      ELSE IF op = "undecodable"
        THEN [taken EXCEPT !.last = [ts |-> ts, outcome |-> "undecodable",
                                     updated |-> FALSE, position |-> 0]]
      ELSE IF ~publishOk
        THEN [taken EXCEPT !.last = [ts |-> ts, outcome |-> "publish failed",
                                     updated |-> FALSE, position |-> 0]]
      ELSE [taken EXCEPT
              !.published = @ \cup {ts},
              !.tracker = update.tracker,
              !.last = [ts |-> ts, outcome |-> "published",
                        updated |-> TRUE, position |-> ts]]

(* ------------------ in-memory driver, two goroutines ------------------ *)
\* The goroutines that call CommitEvents on one store at the same time.  The
\* events of goroutine g carry g as their payload, so that an item of a
\* stream tells who wrote it.
Goroutines == {1, 2}

GoIdle == [at |-> "idle", events |-> <<>>, stream |-> <<>>, first |-> 0,
           count |-> 0]

\* NewStore, seen by goroutines: the map of streams, where each goroutine is
\* in putEvents (at "read" before the map is read for the next event, at
\* "write" between the read and the write back, with the slice it read),
\* whether the runtime has stopped the process, and two history fields: the
\* events of the calls that returned nil, and the last return.
NewMemoryStore ==
  [streams |-> [k \in Keys |-> <<>>],
   g |-> [g \in Goroutines |-> GoIdle],
   fatal |-> FALSE,
   acked |-> {},
   last |-> [g |-> 0, err |-> Nil]]

\* putEvents, second half of the loop body, on the slice read before: the
\* concurrency check, the marshalling, the append and the write back.
putEventsWriteBack(data, stream, evt) ==
  LET expectedLength == evt.Sequence - 1
  IN IF Len(stream) > expectedLength
       THEN [streams |-> data,
             err |-> NewConcurrencyFault(evt.Key, evt.Sequence)]
     ELSE IF ~evt.EventData.ok
       THEN [streams |-> data, err |-> MarshalError]
     ELSE [streams |-> [data EXCEPT ![evt.Key] = Append(stream, Item(evt))],
           err |-> Nil]

(* ------------------- DynamoDB driver, two goroutines ------------------ *)
\* An item of the table: the marshalled KeyedEvent under the attribute names
\* of the driver.
DynamoItem(v) ==
  [aggregate_key |-> v.Key, seq |-> v.Sequence, event_type |-> v.EventType,
   event_data |-> v.EventData.data]

\* dynamo checkExists: GetItem by the primary key (aggregate_key, seq).
dynamoCheckExists(table, key, seq) ==
  \E item \in table : item.aggregate_key = key /\ item.seq = seq

\* One PutItem of dynamo putEvents: the item is stored unless an item with its
\* primary key exists, and then the call fails the condition.
dynamoPutItem(table, v) ==
  IF ~v.EventData.ok
    THEN [table |-> table, err |-> MarshalError]
  ELSE IF dynamoCheckExists(table, v.Key, v.Sequence)
    THEN [table |-> table, err |-> NewConcurrencyFault(v.Key, v.Sequence)]
  ELSE [table |-> table \cup {DynamoItem(v)}, err |-> Nil]

DynIdle == [at |-> "idle", events |-> <<>>, first |-> 0, put |-> {}]

\* No CommitEvents has returned yet.
NoDynamoReturn == [g |-> 0, err |-> Nil, first |-> 0, put |-> {}]

\* NewStoreWithSession, seen by goroutines: the table, where each goroutine
\* is in putEvents with the events it still has to put and the items it has
\* put, and a history field: the last return of CommitEvents with the items
\* that call had put.
NewDynamoStore ==
  [table |-> {},
   g |-> [g \in Goroutines |-> DynIdle],
   last |-> NoDynamoReturn]

(* ------------------------------- state --------------------------------- *)
VARIABLES
  streams,    \* memory store: key -> list of items
  snaps,      \* memorysnap cache: key -> snapshot (NoSnap when absent)
  params,     \* the Parameters the snapshot middleware was created with
  aggs,       \* the aggregate instances
  pc,         \* where each aggregate's Commit is: at, and the error of next()
  lastCommit, \* per aggregate: the Commit that just returned, or NoCommit
  ret,        \* the call made by the last step and its result
  retry,      \* a running call of Retry: its locals and what body returned
  wrap,       \* a middleware wrapper: its three lists and its last call
  pub,        \* the publisher behind the publish middleware: calls received
  dist,       \* the in-process distributor and what its handlers received
  tail,       \* the oplog tailer, its tracker and the oplog it follows
  mem,        \* the in-memory store shared by two goroutines
  dyn         \* the DynamoDB table shared by two goroutines

vars ==
  <<streams, snaps, params, aggs, pc, lastCommit, ret, retry, wrap, pub,
    dist, tail, mem, dyn>>

Idle == [at |-> "idle", err |-> Nil]

\* History of a finished Commit: the committed sequence and the buffer it was
\* called with, and the error it returned.
Committed(s, evs, err) == [called |-> TRUE, s |-> s, evs |-> evs, err |-> err]
NoCommit == [called |-> FALSE, s |-> 0, evs |-> <<>>, err |-> Nil]

\* History of the last call: operation, caller, the key, committed sequence
\* and number of events of a CommitEvents call, the error returned, what
\* ReplayEvent received and whether RestoreSnapshot was invoked.
Ret(op, who, key, s, n, err, replayed, restored) ==
  [op |-> op, who |-> who, key |-> key, s |-> s, n |-> n, err |-> err,
   replayed |-> replayed, restored |-> restored]

\* All event lists of length at most n over a pool.
RECURSIVE EventLists(_, _)
EventLists(pool, n) ==
  IF n = 0 THEN {<<>>}
  ELSE LET shorter == EventLists(pool, n - 1)
       IN shorter \cup {Append(l, e) : l \in shorter, e \in pool}

\* The buffers writers hand to CommitEvents, and the event lists the
\* callbacks given to Run apply.
Buffers == EventLists(EventPool, MaxBuf)
ClosureEvents == {Ev(IncrementEventT, 1, TRUE), Ev(UnknownEventT, 0, TRUE)}
ClosureLists == EventLists(ClosureEvents, MaxBuf)

Stores == {"kv", "snap"}

\* One memory store, one snapshot middleware wrapped around it, and one
\* aggregate constructed and initialised.
Init ==
  /\ streams = [k \in Keys |-> <<>>]
  /\ snaps = [k \in Keys |-> NoSnap]
  /\ params \in [Lazy : BOOLEAN, SnapInterval : {SnapInterval}, PurgeError : {Nil}]
  /\ aggs \in [{"a1"} -> {NewAggregate(k, "kv", "defined") : k \in AggKeys}]
  /\ pc = [a \in DOMAIN aggs |-> Idle]
  /\ lastCommit = [a \in DOMAIN aggs |-> NoCommit]
  /\ ret = Ret("none", "", "", 0, 0, Nil, <<>>, FALSE)
  /\ retry = NoRetry
  /\ wrap = NoWrapper
  /\ pub = NoPublisher
  /\ dist = Create(counterRegistry)
  /\ tail = CreateTailer(InitialPositionTrimHorizon)
  /\ mem = NewMemoryStore
  /\ dyn = NewDynamoStore

(* ------------------------------ actions -------------------------------- *)
\* A new SimpleAggregate is constructed and initialised in a's place.
Initialize(a, key, store, wiring) ==
  /\ pc[a].at = "idle"
  /\ aggs' = [aggs EXCEPT ![a] = NewAggregate(key, store, wiring)]
  /\ lastCommit' = [lastCommit EXCEPT ![a] = NoCommit]
  /\ ret' = Ret("Initialize", a, "", 0, 0, Nil, <<>>, FALSE)
  /\ UNCHANGED <<streams, snaps, params, pc, retry, wrap, pub, dist, tail,
                 mem, dyn>>

\* AggregateBase.ApplyEvent
ApplyEvent(a, event) ==
  /\ pc[a].at = "idle"
  /\ Len(aggs[a].uncomittedEvents) < MaxBuf
  /\ aggs[a].sequenceNumber < MaxStream
  /\ aggs' = [aggs EXCEPT ![a] = ApplyEventOp(aggs[a], event)]
  /\ lastCommit' = [lastCommit EXCEPT ![a] = NoCommit]
  /\ ret' = Ret("ApplyEvent", a, "", 0, 0, Nil, <<>>, FALSE)
  /\ UNCHANGED <<streams, snaps, params, pc, retry, wrap, pub, dist, tail,
                 mem, dyn>>

\* AggregateBase.Refresh
Refresh(a) ==
  /\ pc[a].at = "idle"
  /\ LET r == RefreshOp(snaps, params, streams, aggs[a])
     IN /\ aggs' = [aggs EXCEPT ![a] = r.agg]
        /\ ret' = Ret("Refresh", a, "", 0, 0, r.err, r.replayed, r.restored)
  /\ lastCommit' = [lastCommit EXCEPT ![a] = NoCommit]
  /\ UNCHANGED <<streams, snaps, params, pc, retry, wrap, pub, dist, tail,
                 mem, dyn>>

\* Run that goes on to Commit whatever Refresh and the callback returned.
RunIgnoresErrors(a, closure) ==
  /\ pc[a].at = "idle"
  /\ LET r == RefreshOp(snaps, params, streams, aggs[a])
         m == RunCallback(r.agg, closure)
         op == IF closure.kind = "handle" THEN "Handle" ELSE "Run"
         err == IF r.err # Nil THEN r.err ELSE m.err
     IN /\ r.err = Nil => /\ m.agg.sequenceNumber <= MaxStream
                          /\ Len(m.agg.uncomittedEvents) <= MaxBuf
        /\ aggs' = [aggs EXCEPT ![a] = IF r.err # Nil THEN r.agg ELSE m.agg]
        /\ pc' = [pc EXCEPT ![a] = [at |-> "commit", err |-> Nil]]
        /\ ret' = Ret(op, a, "", 0, 0, err, r.replayed, r.restored)
  /\ lastCommit' = [lastCommit EXCEPT ![a] = NoCommit]
  /\ UNCHANGED <<streams, snaps, params, retry, wrap, pub, dist, tail, mem,
                 dyn>>

\* AggregateBase.Run (and Handle, which is Run around handleInternal) up to
\* its call of Commit: Refresh, then the callback.
Run(a, closure) ==
  /\ pc[a].at = "idle"
  /\ LET r == RefreshOp(snaps, params, streams, aggs[a])
         m == RunCallback(r.agg, closure)
         op == IF closure.kind = "handle" THEN "Handle" ELSE "Run"
         err == IF r.err # Nil THEN r.err ELSE m.err
     IN /\ r.err = Nil => /\ m.agg.sequenceNumber <= MaxStream
                          /\ Len(m.agg.uncomittedEvents) <= MaxBuf
        /\ aggs' = [aggs EXCEPT ![a] = IF r.err # Nil THEN r.agg ELSE m.agg]
        /\ pc' = IF err # Nil THEN pc
                 ELSE [pc EXCEPT ![a] = [at |-> "commit", err |-> Nil]]
        /\ ret' = Ret(op, a, "", 0, 0, err, r.replayed, r.restored)
  /\ lastCommit' = [lastCommit EXCEPT ![a] = NoCommit]
  /\ UNCHANGED <<streams, snaps, params, retry, wrap, pub, dist, tail, mem,
                 dyn>>

\* AggregateBase.Commit up to the engine's CheckSequence callback.  With the
\* snapshot middleware the wrapper calls next() first, which is the engine.
CommitStart(a) ==
  /\ pc[a].at \in {"idle", "commit"}
  /\ LET w == WriterOf(aggs[a])
         errExists == CommitCheck(streams, w)
         t == IF aggs[a].eventStore = "snap"
                THEN SnapCommitTail(snaps, params, aggs[a], errExists)
                ELSE [snaps |-> snaps, err |-> errExists, putCalled |-> FALSE,
                      purgeCalled |-> FALSE]
     IN IF errExists = Nil
          THEN /\ pc' = [pc EXCEPT ![a] = [at |-> "checked", err |-> Nil]]
               /\ ret' = Ret("CheckSequence", a, "", 0, 0, Nil, <<>>, FALSE)
               /\ lastCommit' = [lastCommit EXCEPT ![a] = NoCommit]
               /\ snaps' = snaps
          ELSE /\ pc' = [pc EXCEPT ![a] = Idle]
               /\ snaps' = t.snaps
               /\ lastCommit' = [lastCommit EXCEPT ![a] =
                                   Committed(w.committed, w.events, t.err)]
               /\ ret' = Ret("Commit", a, "", 0, 0, t.err, <<>>, FALSE)
  /\ UNCHANGED <<streams, params, aggs, retry, wrap, pub, dist, tail, mem,
                 dyn>>

\* The engine's assignEventKeys and PutEvents callback; without middleware
\* Commit returns here.
CommitPut(a) ==
  /\ pc[a].at = "checked"
  /\ LET w == WriterOf(aggs[a])
         r == CommitPutPart(streams, w)
     IN /\ streams' = r.streams
        /\ IF aggs[a].eventStore = "snap"
             THEN /\ pc' = [pc EXCEPT ![a] = [at |-> "stored", err |-> r.err]]
                  /\ aggs' = aggs
                  /\ lastCommit' = lastCommit
                  /\ ret' = Ret("PutEvents", a, "", 0, 0, r.err, <<>>, FALSE)
             ELSE /\ pc' = [pc EXCEPT ![a] = Idle]
                  /\ aggs' = [aggs EXCEPT ![a] = CommitTail(aggs[a], r.err)]
                  /\ lastCommit' = [lastCommit EXCEPT ![a] =
                                      Committed(w.committed, w.events, r.err)]
                  /\ ret' = Ret("Commit", a, "", 0, 0, r.err, <<>>, FALSE)
  /\ UNCHANGED <<snaps, params, retry, wrap, pub, dist, tail, mem, dyn>>

\* The snapshot middleware's commit after next() returned, and the end of
\* AggregateBase.Commit.
CommitSnap(a) ==
  /\ pc[a].at = "stored"
  /\ LET w == WriterOf(aggs[a])
         t == SnapCommitTail(snaps, params, aggs[a], pc[a].err)
     IN /\ snaps' = t.snaps
        /\ aggs' = [aggs EXCEPT ![a] = CommitTail(aggs[a], t.err)]
        /\ lastCommit' = [lastCommit EXCEPT ![a] =
                            Committed(w.committed, w.events, t.err)]
        /\ ret' = Ret("Commit", a, "", 0, 0, t.err, <<>>, FALSE)
  /\ pc' = [pc EXCEPT ![a] = Idle]
  /\ UNCHANGED <<streams, params, retry, wrap, pub, dist, tail, mem, dyn>>

\* The number of durable events of the given keys.
RECURSIVE StoredEvents(_, _)
StoredEvents(data, keys) ==
  IF keys = {} THEN 0
  ELSE LET k == CHOOSE x \in keys : TRUE
       IN Len(data[k]) + StoredEvents(data, keys \ {k})

\* store.CommitEvents called with a writer adapter of the caller's making
\* (fakeStoreWriter), run without interruption.
RawCommit(key, s, events) ==
  LET r == CommitEvents(streams, Writer(key, s, events))
  IN /\ StoredEvents(r.streams, Keys) <= MaxStream
     /\ streams' = r.streams
     /\ ret' = Ret("CommitEvents", "raw", key, s, Len(events), r.err,
                   <<>>, FALSE)
     /\ UNCHANGED <<snaps, params, aggs, pc, lastCommit, retry, wrap, pub,
                    dist, tail, mem, dyn>>

\* Another writer of the same store appends one event at the end of the
\* aggregates' stream.
OtherWriter(key) ==
  RawCommit(key, Len(streams[key]), <<Ev(IncrementEventT, 1, TRUE)>>)

\* Aggregates created one after the other on a key, through the engine
\* directly or through the snapshot middleware, and the other writer.
Next ==
  \/ \E a \in DOMAIN aggs, k \in AggKeys, st \in Stores :
       Initialize(a, k, st, "defined")
  \/ \E a \in DOMAIN aggs, e \in EventPool : ApplyEvent(a, e)
  \/ \E a \in DOMAIN aggs : Refresh(a)
  \/ \E a \in DOMAIN aggs, l \in ClosureLists, f \in BOOLEAN :
       Run(a, ApplyClosure(l, f))
  \/ \E a \in DOMAIN aggs, c \in Commands : Run(a, HandleClosure(c))
  \/ \E a \in DOMAIN aggs : CommitStart(a)
  \/ \E a \in DOMAIN aggs : CommitPut(a)
  \/ \E a \in DOMAIN aggs : CommitSnap(a)
  \/ \E k \in AggKeys : OtherWriter(k)

Spec == Init /\ [][Next]_vars

\* The store alone: any sequence of CommitEvents calls, any keys, any
\* committed sequences, any event lists.
InitStore ==
  /\ streams = [k \in Keys |-> <<>>]
  /\ snaps = [k \in Keys |-> NoSnap]
  /\ params = [Lazy |-> FALSE, SnapInterval |-> SnapInterval, PurgeError |-> Nil]
  /\ aggs = [a \in {"a1"} |-> NewAggregate("k1", "kv", "defined")]
  /\ pc = [a \in DOMAIN aggs |-> Idle]
  /\ lastCommit = [a \in DOMAIN aggs |-> NoCommit]
  /\ ret = Ret("none", "", "", 0, 0, Nil, <<>>, FALSE)
  /\ retry = NoRetry
  /\ wrap = NoWrapper
  /\ pub = NoPublisher
  /\ dist = Create(counterRegistry)
  /\ tail = CreateTailer(InitialPositionTrimHorizon)
  /\ mem = NewMemoryStore
  /\ dyn = NewDynamoStore

NextStore ==
  \E k \in Keys, s \in 0..MaxStream, l \in Buffers :
    RawCommit(k, s, l)

SpecStore == InitStore /\ [][NextStore]_vars

\* The states of writers other than SimpleAggregate as json.Marshal renders
\* them: the same two keys, with numbers or with what the decoder rejects.
WriterStates ==
  [CurrentCount : {1, Undecodable}, TargetValue : {2, Undecodable}]

\* The buffers of those writers: increments only.
SnapBuffers == EventLists({Ev(IncrementEventT, 1, TRUE)}, MaxBuf)

\* CommitEvents of the store with the snapshot middleware, called with a
\* writer adapter of the caller's making whose GetState returns state, run
\* without interruption.
RawSnapCommit(key, s, events, state) ==
  LET writer == [key |-> key,
                 committedSequenceNumber |-> s,
                 uncomittedEvents |-> events,
                 CurrentCount |-> state.CurrentCount,
                 TargetValue |-> state.TargetValue]
      c == CommitEvents(streams, Writer(key, s, events))
      t == SnapCommitTail(snaps, params, writer, c.err)
  IN /\ StoredEvents(c.streams, Keys) <= MaxStream
     /\ streams' = c.streams
     /\ snaps' = t.snaps
     /\ ret' = Ret("CommitEvents", "raw", key, s, Len(events), t.err,
                   <<>>, FALSE)
     /\ UNCHANGED <<params, aggs, pc, lastCommit, retry, wrap, pub, dist,
                    tail, mem, dyn>>

\* The snapshot middleware shared by SimpleAggregate and by writers with
\* other states on the same keys.
InitSnapshots ==
  /\ streams = [k \in Keys |-> <<>>]
  /\ snaps = [k \in Keys |-> NoSnap]
  /\ params \in [Lazy : BOOLEAN, SnapInterval : {SnapInterval}, PurgeError : {Nil}]
  /\ aggs = [a \in {"a1"} |-> NewAggregate("k1", "snap", "defined")]
  /\ pc = [a \in DOMAIN aggs |-> Idle]
  /\ lastCommit = [a \in DOMAIN aggs |-> NoCommit]
  /\ ret = Ret("none", "", "", 0, 0, Nil, <<>>, FALSE)
  /\ retry = NoRetry
  /\ wrap = NoWrapper
  /\ pub = NoPublisher
  /\ dist = Create(counterRegistry)
  /\ tail = CreateTailer(InitialPositionTrimHorizon)
  /\ mem = NewMemoryStore
  /\ dyn = NewDynamoStore

NextSnapshots ==
  \/ \E k \in AggKeys, s \in 0..MaxStream, l \in SnapBuffers,
        st \in WriterStates :
       RawSnapCommit(k, s, l, st)
  \/ \E a \in DOMAIN aggs, k \in AggKeys : Initialize(a, k, "snap", "defined")
  \/ \E a \in DOMAIN aggs : Refresh(a)

SpecSnapshots == InitSnapshots /\ [][NextSnapshots]_vars

\* Retry on its own: calls with any limit, body returning nil, a
\* ConcurrencyFault or a DomainFault at each invocation.
RetryLimits == -1..MaxRetryLimit
BodyOutcomes(r) ==
  {Nil} \cup {NewConcurrencyFault(k, Len(r.results) + 1) : k \in Keys}
        \cup {NewDomainFault(k) : k \in AggKeys}

RetryCall(limit) ==
  /\ ~retry.running
  /\ retry' = RetryEntry(limit)
  /\ UNCHANGED <<streams, snaps, params, aggs, pc, lastCommit, ret, wrap,
                 pub, dist, tail, mem, dyn>>

RetryIteration(outcome) ==
  /\ retry.running
  /\ Len(retry.results) < MaxCalls
  /\ retry' = RetryLoop(retry, outcome)
  /\ UNCHANGED <<streams, snaps, params, aggs, pc, lastCommit, ret, wrap,
                 pub, dist, tail, mem, dyn>>

NextRetry ==
  \/ \E limit \in RetryLimits : RetryCall(limit)
  \/ \E outcome \in BodyOutcomes(retry) : RetryIteration(outcome)

SpecRetry == InitStore /\ [][NextRetry]_vars

\* The wrapper on its own: registrations of named middlewares and cleanups
\* (nil ones too), and calls of CommitEvents, Refresh and Close.
MiddlewareNames == {"A", "B"}
Middlewares ==
  {Middleware(n, c) : n \in MiddlewareNames, c \in BOOLEAN} \cup {NilFunc}
Cleanups ==
  {Cleanup(n, f) : n \in MiddlewareNames, f \in BOOLEAN} \cup {NilFunc}

Registered1(w, op) ==
  [w EXCEPT !.registered = w.registered + 1, !.op = op,
            !.trace = <<>>, !.err = Nil]
Called(w, op, result) ==
  [w EXCEPT !.op = op, !.trace = result.trace, !.err = result.err]

WrapperUse(m, c) ==
  /\ wrap.registered < MaxMiddleware
  /\ wrap' = Registered1(Use(wrap, m, m, c), "Use")
  /\ UNCHANGED <<streams, snaps, params, aggs, pc, lastCommit, ret, retry,
                 pub, dist, tail, mem, dyn>>

WrapperHandleCommit(m) ==
  /\ wrap.registered < MaxMiddleware
  /\ wrap' = Registered1(HandleCommit(wrap, m), "HandleCommit")
  /\ UNCHANGED <<streams, snaps, params, aggs, pc, lastCommit, ret, retry,
                 pub, dist, tail, mem, dyn>>

WrapperHandleRefresh(m) ==
  /\ wrap.registered < MaxMiddleware
  /\ wrap' = Registered1(HandleRefresh(wrap, m), "HandleRefresh")
  /\ UNCHANGED <<streams, snaps, params, aggs, pc, lastCommit, ret, retry,
                 pub, dist, tail, mem, dyn>>

WrapperHandleCleanup(c) ==
  /\ wrap.registered < MaxMiddleware
  /\ wrap' = Registered1(HandleCleanup(wrap, c), "HandleCleanup")
  /\ UNCHANGED <<streams, snaps, params, aggs, pc, lastCommit, ret, retry,
                 pub, dist, tail, mem, dyn>>

WrapperCommitEvents ==
  /\ wrap' = Called(wrap, "CommitEvents", Chain(wrap.commit, Len(wrap.commit)))
  /\ UNCHANGED <<streams, snaps, params, aggs, pc, lastCommit, ret, retry,
                 pub, dist, tail, mem, dyn>>

WrapperRefresh ==
  /\ wrap' = Called(wrap, "Refresh", Chain(wrap.refresh, Len(wrap.refresh)))
  /\ UNCHANGED <<streams, snaps, params, aggs, pc, lastCommit, ret, retry,
                 pub, dist, tail, mem, dyn>>

WrapperClose ==
  /\ wrap' = Called(wrap, "Close", CloseFrom(wrap.cleanup, 1))
  /\ UNCHANGED <<streams, snaps, params, aggs, pc, lastCommit, ret, retry,
                 pub, dist, tail, mem, dyn>>

NextWrapper ==
  \/ \E m \in Middlewares, c \in Cleanups : WrapperUse(m, c)
  \/ \E m \in Middlewares : WrapperHandleCommit(m)
  \/ \E m \in Middlewares : WrapperHandleRefresh(m)
  \/ \E c \in Cleanups : WrapperHandleCleanup(c)
  \/ WrapperCommitEvents
  \/ WrapperRefresh
  \/ WrapperClose

SpecWrapper == InitStore /\ [][NextWrapper]_vars

\* The store behind the publish middleware: CommitEvents calls with any
\* keys, committed sequences and event lists, the publisher failing at any
\* position or not at all, and aggregates refreshed through the middleware.
FailPositions == 0..MaxBuf
PublishBuffers ==
  EventLists({Ev(IncrementEventT, 1, TRUE), Ev(IncrementEventT, 2, FALSE)},
             MaxBuf)

PublishCommitEvents(key, s, events, failAt) ==
  LET r == PublishCommit(streams, Writer(key, s, events), failAt)
  IN /\ StoredEvents(r.streams, Keys) <= MaxStream
     /\ streams' = r.streams
     /\ pub' = [log |-> pub.log \o r.calls]
     /\ ret' = Ret("CommitEvents", "publish", key, s, Len(events), r.err,
                   <<>>, FALSE)
     /\ UNCHANGED <<snaps, params, aggs, pc, lastCommit, retry, wrap, dist,
                    tail, mem, dyn>>

PublishRefreshStep(a) ==
  LET r == PublishRefresh(streams, aggs[a])
  IN /\ aggs' = [aggs EXCEPT ![a] = r.agg]
     /\ ret' = Ret("Refresh", a, "", 0, 0, r.err, r.replayed, FALSE)
     /\ UNCHANGED <<streams, snaps, params, pc, lastCommit, retry, wrap, pub,
                    dist, tail, mem, dyn>>

NextPublish ==
  \/ \E k \in AggKeys, l \in PublishBuffers, f \in FailPositions :
       \E s \in {0, Len(streams[k]), MaxStream} :
         f <= Len(l) /\ PublishCommitEvents(k, s, l, f)
  \/ \E a \in DOMAIN aggs : PublishRefreshStep(a)
  \/ \E a \in DOMAIN aggs, k \in AggKeys : Initialize(a, k, "kv", "defined")

SpecPublish == InitStore /\ [][NextPublish]_vars

\* The distributor on its own: any sequence of AddHandler, Start, Stop and
\* Publish calls, with handlers that record and handlers that fail, and
\* events the registry knows and one it does not.
HandlerPool ==
  {Handler("h1", FALSE), Handler("h2", FALSE), Handler("bad", TRUE)}
PublishedEvents == {Ev(IncrementEventT, 1, TRUE), Ev(UnknownEventT, 0, TRUE)}
PublishedSequences == 1..2

DistributorAddHandler(handler) ==
  /\ Len(dist.handlers) < MaxHandlers
  /\ dist' = AddHandler(dist, handler)
  /\ ret' = Ret("AddHandler", "dist", "", 0, 0, Nil, <<>>, FALSE)
  /\ UNCHANGED <<streams, snaps, params, aggs, pc, lastCommit, retry, wrap,
                 pub, tail, mem, dyn>>

DistributorStart ==
  /\ dist' = Start(dist)
  /\ ret' = Ret("Start", "dist", "", 0, 0, Nil, <<>>, FALSE)
  /\ UNCHANGED <<streams, snaps, params, aggs, pc, lastCommit, retry, wrap,
                 pub, tail, mem, dyn>>

DistributorStop ==
  /\ dist' = Stop(dist)
  /\ ret' = Ret("Stop", "dist", "", 0, 0, Nil, <<>>, FALSE)
  /\ UNCHANGED <<streams, snaps, params, aggs, pc, lastCommit, retry, wrap,
                 pub, tail, mem, dyn>>

DistributorPublish(key, sequence, event) ==
  LET r == Publish(dist, key, sequence, event)
  IN /\ Len(r.dist.received) <= MaxReceived
     /\ dist' = [r.dist EXCEPT !.lastPublished = <<event>>]
     /\ ret' = Ret("Publish", "dist", key, sequence, 0, r.err, <<>>, FALSE)
     /\ UNCHANGED <<streams, snaps, params, aggs, pc, lastCommit, retry,
                    wrap, pub, tail, mem, dyn>>

NextDistributor ==
  \/ \E h \in HandlerPool : DistributorAddHandler(h)
  \/ DistributorStart
  \/ DistributorStop
  \/ \E k \in AggKeys, q \in PublishedSequences, e \in PublishedEvents :
       DistributorPublish(k, q, e)

SpecDistributor == InitStore /\ [][NextDistributor]_vars

\* The oplog tailer on its own: the oplog grows, the tailer is started and
\* stopped, and each pass of its loop takes the next operation.  Publish and
\* the tracker's upsert succeed or fail as the step's inputs say.
InitTailer ==
  /\ streams = [k \in Keys |-> <<>>]
  /\ snaps = [k \in Keys |-> NoSnap]
  /\ params = [Lazy |-> FALSE, SnapInterval |-> SnapInterval, PurgeError |-> Nil]
  /\ aggs = [a \in {"a1"} |-> NewAggregate("k1", "kv", "defined")]
  /\ pc = [a \in DOMAIN aggs |-> Idle]
  /\ lastCommit = [a \in DOMAIN aggs |-> NoCommit]
  /\ ret = Ret("none", "", "", 0, 0, Nil, <<>>, FALSE)
  /\ retry = NoRetry
  /\ wrap = NoWrapper
  /\ pub = NoPublisher
  /\ dist = Create(counterRegistry)
  /\ tail \in {CreateTailer(InitialPositionTrimHorizon),
               CreateTailer(InitialPositionEdge)}
  /\ mem = NewMemoryStore
  /\ dyn = NewDynamoStore

FeedAppend(kind) ==
  /\ Len(tail.feed) < MaxFeed
  /\ tail' = [tail EXCEPT !.feed = Append(@, kind), !.last = NoOp]
  /\ UNCHANGED <<streams, snaps, params, aggs, pc, lastCommit, ret, retry,
                 wrap, pub, dist, mem, dyn>>

TailerStart ==
  /\ ~tail.running
  /\ tail' = CreateOpLogPublisherFromSession(tail)
  /\ UNCHANGED <<streams, snaps, params, aggs, pc, lastCommit, ret, retry,
                 wrap, pub, dist, mem, dyn>>

\* The terminator's signal is received: the loop returns.
TailerStop ==
  /\ tail.running
  /\ tail' = [tail EXCEPT !.running = FALSE, !.last = NoOp]
  /\ UNCHANGED <<streams, snaps, params, aggs, pc, lastCommit, ret, retry,
                 wrap, pub, dist, mem, dyn>>

TailerStep(publishOk, updateOk) ==
  /\ tail.running
  /\ tail.cursor < Len(tail.feed)
  /\ tail' = runOpLogPublisher(tail, publishOk, updateOk)
  /\ UNCHANGED <<streams, snaps, params, aggs, pc, lastCommit, ret, retry,
                 wrap, pub, dist, mem, dyn>>

NextTailer ==
  \/ \E kind \in {"insert", "undecodable", "filtered"} : FeedAppend(kind)
  \/ TailerStart
  \/ TailerStop
  \/ \E p \in BOOLEAN, u \in BOOLEAN : TailerStep(p, u)

SpecTailer == InitTailer /\ [][NextTailer]_vars

\* The tailer with the scheduling the delivery guarantee assumes: a Publish
\* that can be attempted again and again eventually succeeds, a running tailer
\* is eventually stopped and a stopped one is eventually started again from
\* the tracker's position.
SpecTailerLive ==
  /\ InitTailer
  /\ [][NextTailer]_vars
  /\ SF_vars(\E u \in BOOLEAN : TailerStep(TRUE, u))
  /\ WF_vars(TailerStart)
  /\ WF_vars(TailerStop)

\* Two goroutines calling CommitEvents of one in-memory store for the same
\* key, followed statement by statement.  The store has no lock: the steps of
\* the two calls interleave freely, and when both are inside putEvents the
\* runtime may also stop the process (concurrent map access).
\* store.CommitEvents up to the call of PutEvents: the writer is at sequence
\* s, a sequence it read from the store before, and has n events.
GoCommitEvents(g, key, s, n) ==
  LET writer == Writer(key, s, [i \in 1..n |-> Ev(IncrementEventT, g, TRUE)])
      errExists == CommitCheck(mem.streams, writer)
      remapped == assignEventKeys(key, s, writer.registry, writer.events)
  IN /\ ~mem.fatal
     /\ mem.g[g].at = "idle"
     /\ s <= Len(mem.streams[key])
     /\ s + n <= MaxStream
     /\ mem' = IF errExists # Nil
                 THEN [mem EXCEPT !.last = [g |-> g, err |-> errExists]]
               ELSE IF remapped.err # Nil
                 THEN [mem EXCEPT !.last = [g |-> g, err |-> remapped.err]]
               ELSE [mem EXCEPT
                       !.g[g] = [at |-> "read", events |-> remapped.target,
                                 stream |-> <<>>, first |-> s, count |-> n],
                       !.last = [g |-> 0, err |-> Nil]]
     /\ UNCHANGED <<streams, snaps, params, aggs, pc, lastCommit, ret, retry,
                    wrap, pub, dist, tail, dyn>>

\* putEvents, first half of the loop body: the stream is read from the map.
GoRead(g) ==
  /\ ~mem.fatal
  /\ mem.g[g].at = "read"
  /\ mem' = [mem EXCEPT
               !.g[g].stream = mem.streams[Head(mem.g[g].events).Key],
               !.g[g].at = "write",
               !.last = [g |-> 0, err |-> Nil]]
  /\ UNCHANGED <<streams, snaps, params, aggs, pc, lastCommit, ret, retry,
                 wrap, pub, dist, tail, dyn>>

GoWriteBack(g) ==
  LET me == mem.g[g]
      r == putEventsWriteBack(mem.streams, me.stream, Head(me.events))
  IN /\ ~mem.fatal
     /\ me.at = "write"
     /\ mem' = IF r.err # Nil
                 THEN [mem EXCEPT !.g[g] = GoIdle,
                                  !.last = [g |-> g, err |-> r.err]]
               ELSE IF Tail(me.events) # <<>>
                 THEN [mem EXCEPT !.streams = r.streams,
                                  !.g[g].events = Tail(me.events),
                                  !.g[g].at = "read",
                                  !.last = [g |-> 0, err |-> Nil]]
               ELSE [mem EXCEPT !.streams = r.streams,
                                !.g[g] = GoIdle,
                                !.acked = @ \cup {[g |-> g, sequence |-> q] :
                                     q \in (me.first + 1)..(me.first + me.count)},
                                !.last = [g |-> g, err |-> Nil]]
     /\ UNCHANGED <<streams, snaps, params, aggs, pc, lastCommit, ret, retry,
                    wrap, pub, dist, tail, dyn>>

\* The runtime detects the unsynchronised access to the map and ends the
\* process.
ConcurrentMapFault ==
  /\ ~mem.fatal
  /\ \A g \in Goroutines : mem.g[g].at # "idle"
  /\ mem' = [mem EXCEPT !.fatal = TRUE, !.last = [g |-> 0, err |-> Nil]]
  /\ UNCHANGED <<streams, snaps, params, aggs, pc, lastCommit, ret, retry,
                 wrap, pub, dist, tail, dyn>>

NextMemoryRace ==
  \/ \E g \in Goroutines, s \in 0..MaxStream, n \in 1..MaxBuf :
       GoCommitEvents(g, "k1", s, n)
  \/ \E g \in Goroutines : GoRead(g)
  \/ \E g \in Goroutines : GoWriteBack(g)
  \/ ConcurrentMapFault

SpecMemoryRace == InitStore /\ [][NextMemoryRace]_vars

\* Two goroutines calling CommitEvents of one DynamoDB store for the same
\* key.  Each GetItem and each PutItem is one step; the steps of the two calls
\* interleave.
\* store.CommitEvents up to the call of PutEvents over the DynamoDB driver:
\* the writer is at sequence s, which it read from the table before.
DynCommitEvents(g, key, s, n) ==
  LET events == [i \in 1..n |-> Ev(IncrementEventT, g, TRUE)]
      remapped == assignEventKeys(key, s, counterRegistry, events)
  IN /\ dyn.g[g].at = "idle"
     /\ s = 0 \/ dynamoCheckExists(dyn.table, key, s)
     /\ s + n <= MaxStream
     /\ dyn' = IF s > 0 /\ ~dynamoCheckExists(dyn.table, key, s)
                 THEN [dyn EXCEPT !.last = [g |-> g, err |-> StoreErrorNoPrior,
                                            first |-> s, put |-> {}]]
               ELSE IF remapped.err # Nil
                 THEN [dyn EXCEPT !.last = [g |-> g, err |-> remapped.err,
                                            first |-> s, put |-> {}]]
               ELSE [dyn EXCEPT
                       !.g[g] = [at |-> "put", events |-> remapped.target,
                                 first |-> s, put |-> {}],
                       !.last = NoDynamoReturn]
     /\ UNCHANGED <<streams, snaps, params, aggs, pc, lastCommit, ret, retry,
                    wrap, pub, dist, tail, mem>>

\* One pass of the loop of dynamo putEvents.
DynPutItem(g) ==
  LET me == dyn.g[g]
      v == Head(me.events)
      r == dynamoPutItem(dyn.table, v)
  IN /\ me.at = "put"
     /\ dyn' = IF r.err # Nil
                 THEN [dyn EXCEPT !.g[g] = DynIdle,
                                  !.last = [g |-> g, err |-> r.err,
                                            first |-> me.first,
                                            put |-> me.put]]
               ELSE IF Tail(me.events) # <<>>
                 THEN [dyn EXCEPT !.table = r.table,
                                  !.g[g].events = Tail(me.events),
                                  !.g[g].put = @ \cup {DynamoItem(v)},
                                  !.last = NoDynamoReturn]
               ELSE [dyn EXCEPT !.table = r.table,
                                !.g[g] = DynIdle,
                                !.last = [g |-> g, err |-> Nil,
                                          first |-> me.first,
                                          put |-> me.put \cup {DynamoItem(v)}]]
     /\ UNCHANGED <<streams, snaps, params, aggs, pc, lastCommit, ret, retry,
                    wrap, pub, dist, tail, mem>>

NextDynamoRace ==
  \/ \E g \in Goroutines, s \in 0..MaxStream, n \in 1..MaxBuf :
       DynCommitEvents(g, "k1", s, n)
  \/ \E g \in Goroutines : DynPutItem(g)

SpecDynamoRace == InitStore /\ [][NextDynamoRace]_vars

\* Two writers of the same key, both behind the snapshot middleware (lazy or
\* interval, over a cache whose Purge succeeds or fails): each applies events, refreshes and commits as often as it
\* likes, and the steps of their commits (the engine's check, its put, the
\* middleware's snapshot) interleave.
InitSnapWriters ==
  /\ streams = [k \in Keys |-> <<>>]
  /\ snaps = [k \in Keys |-> NoSnap]
  /\ params \in [Lazy : BOOLEAN, SnapInterval : {SnapInterval},
                  PurgeError : {Nil, PurgeFailed}]
  /\ aggs = [a \in {"a1", "a2"} |-> NewAggregate("k1", "snap", "defined")]
  /\ pc = [a \in DOMAIN aggs |-> Idle]
  /\ lastCommit = [a \in DOMAIN aggs |-> NoCommit]
  /\ ret = Ret("none", "", "", 0, 0, Nil, <<>>, FALSE)
  /\ retry = NoRetry
  /\ wrap = NoWrapper
  /\ pub = NoPublisher
  /\ dist = Create(counterRegistry)
  /\ tail = CreateTailer(InitialPositionTrimHorizon)
  /\ mem = NewMemoryStore
  /\ dyn = NewDynamoStore

NextSnapWriters ==
  \/ \E a \in DOMAIN aggs,
        e \in {Ev(InitializeEventT, 1, TRUE), Ev(IncrementEventT, 1, TRUE)} :
       ApplyEvent(a, e)
  \/ \E a \in DOMAIN aggs : Refresh(a)
  \/ \E a \in DOMAIN aggs : CommitStart(a)
  \/ \E a \in DOMAIN aggs : CommitPut(a)
  \/ \E a \in DOMAIN aggs : CommitSnap(a)

SpecSnapWriters == InitSnapWriters /\ [][NextSnapWriters]_vars

\* A single writer of k1 behind the snapshot middleware that works from the
\* empty stream on: it applies events, commits, refreshes, and starts again
\* with a new instance of the aggregate, one step after the other.
NextSingleWriter ==
  \/ \E a \in DOMAIN aggs : Initialize(a, "k1", "snap", "defined")
  \/ \E a \in DOMAIN aggs, e \in EventPool : ApplyEvent(a, e)
  \/ \E a \in DOMAIN aggs : Refresh(a)
  \/ \E a \in DOMAIN aggs : CommitStart(a)
  \/ \E a \in DOMAIN aggs : CommitPut(a)
  \/ \E a \in DOMAIN aggs : CommitSnap(a)

SpecSingleWriter == InitSnapshots /\ [][NextSingleWriter]_vars

\* Two SimpleAggregates for the same key, both refreshed at the same durable
\* length, then buffering and committing once each against the same store.
RaceKey == "k1"
PriorStreams ==
  {CommitEvents([k \in Keys |-> <<>>], Writer(RaceKey, 0, l)).streams :
     l \in EventLists({Ev(IncrementEventT, 1, TRUE)}, MaxStream - 1)}

InitRace ==
  /\ streams \in PriorStreams
  /\ snaps = [k \in Keys |-> NoSnap]
  /\ params \in [Lazy : BOOLEAN, SnapInterval : {SnapInterval}, PurgeError : {Nil}]
  /\ \E st \in Stores :
       aggs = [a \in {"a1", "a2"} |->
                 RefreshOp(snaps, params, streams,
                           NewAggregate(RaceKey, st, "auto")).agg]
  /\ pc = [a \in DOMAIN aggs |-> Idle]
  /\ lastCommit = [a \in DOMAIN aggs |-> NoCommit]
  /\ ret = Ret("none", "", "", 0, 0, Nil, <<>>, FALSE)
  /\ retry = NoRetry
  /\ wrap = NoWrapper
  /\ pub = NoPublisher
  /\ dist = Create(counterRegistry)
  /\ tail = CreateTailer(InitialPositionTrimHorizon)
  /\ mem = NewMemoryStore
  /\ dyn = NewDynamoStore

NextRace ==
  \/ \E a \in DOMAIN aggs, e \in EventPool :
       ~lastCommit[a].called /\ ApplyEvent(a, e)
  \/ \E a \in DOMAIN aggs : ~lastCommit[a].called /\ CommitStart(a)
  \/ \E a \in DOMAIN aggs : CommitPut(a)
  \/ \E a \in DOMAIN aggs : CommitSnap(a)

SpecRace == InitRace /\ [][NextRace]_vars

(* ---------------------- properties of the store ------------------------ *)
\* Whether an event's type is one of the two the registry was given.
Registered(e) == e.goType \in {InitializeEventT, IncrementEventT}

\* What reading position i of k's stream must give for buffered event e
\* committed at sequence q.
Holds(data, k, q, e) ==
  /\ Len(data[k]) >= q
  /\ data[k][q].eventType = <<e.goType[Len(e.goType)]>>
  /\ data[k][q].body.payload = e.data
  /\ data[k][q].sequence = q

\* C1: after any sequence of atomic CommitEvents calls, each key's durable
\* events occupy exactly the sequences 1..N, one event per sequence: the
\* event at position i of the stream is the one written with sequence i.
C1_ContiguousUnique ==
  \A k \in Keys : \A i \in 1..Len(streams[k]) : streams[k][i].sequence = i

\* C1 case: calls have succeeded on both keys and the last call failed.
C1_Witness ==
  /\ ret.op = "CommitEvents"
  /\ ret.err # Nil
  /\ Len(streams["k1"]) >= 2
  /\ Len(streams["k2"]) >= 1

C4_FaultNamesFirstSequence ==
  \A k \in Keys, s \in 0..MaxStream, l \in Buffers :
    LET r == CommitEvents(streams, Writer(k, s, l))
    IN /\ IsConcurrencyFault(r.err) =>
            /\ r.err.AggregateKey = k
            /\ r.err.EventSequence = s + 1
       /\ (/\ Len(l) >= 1
           /\ Len(streams[k]) >= s + 1
           /\ \A i \in 1..Len(l) : Registered(l[i]))
          => IsConcurrencyFault(r.err)

\* C4 case: a call of two events at a taken sequence returned the fault.
C4_Witness ==
  /\ ret.op = "CommitEvents"
  /\ IsConcurrencyFault(ret.err)
  /\ ret.s >= 1
  /\ ret.n = 2
  /\ Len(streams[ret.key]) > ret.s

\* C5: every CommitEvents call is all-or-nothing: with an error no stream
\* changes, with nil the key's stream grows by the n events and no other
\* stream changes.
C5_AllOrNothing ==
  [][ret'.op = "CommitEvents" =>
       /\ ret'.err # Nil => streams' = streams
       /\ ret'.err = Nil =>
            /\ Len(streams'[ret'.key]) = Len(streams[ret'.key]) + ret'.n
            /\ \A k \in Keys \ {ret'.key} : streams'[k] = streams[k]]_vars

\* C6: CommitEvents with committed sequence s > 0 on a key holding fewer
\* than s events returns an error that is not a ConcurrencyFault and leaves
\* every stream as it was, whatever the events.
C6_MissingPrior ==
  \A k \in Keys, s \in 1..MaxStream, l \in Buffers :
    Len(streams[k]) < s =>
      LET r == CommitEvents(streams, Writer(k, s, l))
      IN /\ r.err # Nil
         /\ ~IsConcurrencyFault(r.err)
         /\ r.streams = streams

\* C6 case: a call past the end of a stream that has one event was refused.
C6_Witness ==
  /\ ret.op = "CommitEvents"
  /\ ret.s = 3
  /\ ret.n >= 1
  /\ Len(streams[ret.key]) = 1
  /\ ret.err = StoreErrorNoPrior

(* -------------------- properties of the aggregate ---------------------- *)
\* C7: a Commit whose buffer holds an event of an unregistered type returns
\* an error, and the step in which its CommitEvents returns changes no stream.
C7_UnknownTypeWritesNothing ==
  [][\A a \in DOMAIN aggs :
       (/\ ~lastCommit[a].called
        /\ lastCommit'[a].called
        /\ \E i \in 1..Len(lastCommit'[a].evs) :
             ~Registered(lastCommit'[a].evs[i]))
       => /\ lastCommit'[a].err # Nil
          /\ streams' = streams]_vars

\* C7 case: a Commit of a registered event followed by an unregistered one,
\* on a stream that ends at the aggregate's committed sequence, has failed.
C7_Witness ==
  \E a \in DOMAIN aggs :
    /\ lastCommit[a].called
    /\ Len(lastCommit[a].evs) = 2
    /\ Registered(lastCommit[a].evs[1])
    /\ lastCommit[a].evs[1].ok
    /\ ~Registered(lastCommit[a].evs[2])
    /\ lastCommit[a].err = UnknownEventError
    /\ lastCommit[a].s = Len(streams[aggs[a].key])

\* C8: for an aggregate with uncommitted events, the engine's Refresh and
\* the snapshot middleware's refresh both return an error, hand nothing to
\* ReplayEvent, do not call RestoreSnapshot, and leave the aggregate as it is.
C8_DirtyRefreshRefused ==
  \A a \in DOMAIN aggs :
    isDirty(aggs[a]) =>
      LET e == EngineRefresh(streams, aggs[a])
          m == SnapRefresh(snaps, params, streams, aggs[a])
      IN /\ e.err # Nil /\ e.agg = aggs[a] /\ e.replayed = <<>>
         /\ m.err # Nil /\ m.agg = aggs[a] /\ m.replayed = <<>>
         /\ ~m.restored

\* C8 case: Refresh through the snapshot middleware was refused for a dirty
\* aggregate while a snapshot and newer durable events were there to load.
C8_Witness ==
  \E a \in DOMAIN aggs :
    /\ ret.op = "Refresh"
    /\ ret.err = SnapErrorModified
    /\ isDirty(aggs[a])
    /\ snaps[aggs[a].key] # NoSnap
    /\ Len(streams[aggs[a].key]) > aggs[a].committedSequenceNumber

\* C9: a Refresh through the engine of a clean aggregate at sequence s, on a
\* key with N >= s durable events, hands ReplayEvent exactly the events
\* stored at s+1..N in ascending order and ends at sequenceNumber =
\* committedSequenceNumber = N; refreshing again replays nothing.
C9_RefreshReplaysTail ==
  [][\A a \in DOMAIN aggs :
       LET s == aggs[a].sequenceNumber
           k == aggs[a].key
           N == Len(streams[k])
       IN (/\ ret'.op = "Refresh"
           /\ ret'.who = a
           /\ aggs[a].eventStore = "kv"
           /\ ~isDirty(aggs[a])
           /\ N >= s)
          => /\ ret'.err = Nil
             /\ Len(ret'.replayed) = N - s
             /\ \A i \in 1..(N - s) :
                  /\ ret'.replayed[i].stored = s + i
                  /\ Holds(streams, k, s + i, ret'.replayed[i].event)
             /\ aggs'[a].sequenceNumber = N
             /\ aggs'[a].committedSequenceNumber = N
             /\ EngineRefresh(streams', aggs'[a]).err = Nil
             /\ EngineRefresh(streams', aggs'[a]).replayed = <<>>
             /\ EngineRefresh(streams', aggs'[a]).agg = aggs'[a]]_vars

\* C9 case: a Refresh from sequence 1 replayed the events at 2 and 3.
C9_Witness ==
  \E a \in DOMAIN aggs :
    /\ ret.op = "Refresh"
    /\ aggs[a].eventStore = "kv"
    /\ Len(ret.replayed) = 2
    /\ ret.replayed[1].stored = 2
    /\ aggs[a].sequenceNumber = 3

\* C10: every aggregate has committedSequenceNumber <= sequenceNumber and
\* sequenceNumber - committedSequenceNumber = length of the uncommitted
\* buffer, in every state.
C10_SequenceInvariant ==
  \A a \in DOMAIN aggs :
    /\ aggs[a].committedSequenceNumber <= aggs[a].sequenceNumber
    /\ aggs[a].sequenceNumber - aggs[a].committedSequenceNumber
         = Len(aggs[a].uncomittedEvents)

\* C10 case: an aggregate behind the snapshot middleware that has committed
\* and then buffered again.
C10_Witness ==
  \E a \in DOMAIN aggs :
    /\ aggs[a].eventStore = "snap"
    /\ aggs[a].committedSequenceNumber >= 1
    /\ Len(aggs[a].uncomittedEvents) = 2
    /\ snaps[aggs[a].key] # NoSnap

(* ----------------------- properties of the race ------------------------ *)
\* Both aggregates' Commits have returned and both had buffered an event.
RaceOver ==
  \A a \in DOMAIN aggs :
    lastCommit[a].called /\ Len(lastCommit[a].evs) >= 1

\* w's Commit returned nil, o's returned a ConcurrencyFault, and beyond the
\* length both refreshed at the stream holds exactly w's events.
WinnerAndLoser(w, o) ==
  /\ lastCommit[w].err = Nil
  /\ IsConcurrencyFault(lastCommit[o].err)
  /\ Len(streams[RaceKey]) = lastCommit[w].s + Len(lastCommit[w].evs)
  /\ \A i \in 1..Len(lastCommit[w].evs) :
       Holds(streams, RaceKey, lastCommit[w].s + i, lastCommit[w].evs[i])

\* C3 as stated: once both aggregates, refreshed at the same length and
\* each with at least one buffered event, have committed, exactly one Commit
\* returned nil, the other a ConcurrencyFault, and the stream holds only the
\* winner's events beyond that length.
C3_ExactlyOneWins ==
  RaceOver => WinnerAndLoser("a1", "a2") \/ WinnerAndLoser("a2", "a1")

\* C3 amended: never do both Commits return nil; and when every buffered
\* event of both aggregates is of a registered type that the driver can
\* serialise, exactly one returns nil, the other a ConcurrencyFault, and the
\* stream holds only the winner's events beyond the common length.
C3_ExactlyOneWinsRegistered ==
  RaceOver =>
    /\ lastCommit["a1"].err # Nil \/ lastCommit["a2"].err # Nil
    /\ (\A a \in DOMAIN aggs : \A i \in 1..Len(lastCommit[a].evs) :
          Registered(lastCommit[a].evs[i]) /\ lastCommit[a].evs[i].ok)
       => WinnerAndLoser("a1", "a2") \/ WinnerAndLoser("a2", "a1")

\* C3 case: both checked the sequence before either put; the second
\* aggregate's two events went in after one prior event, and the first
\* aggregate's registered event was refused with a ConcurrencyFault.
C3_Witness ==
  /\ RaceOver
  /\ lastCommit["a1"].s = 1
  /\ Len(lastCommit["a2"].evs) = 2
  /\ lastCommit["a2"].err = Nil
  /\ IsConcurrencyFault(lastCommit["a1"].err)
  /\ Registered(lastCommit["a1"].evs[1])
  /\ lastCommit["a1"].evs[1].ok

(* ------------------ properties of Commit, Run, Handle ------------------ *)
\* C11: the step in which an aggregate's Commit returns promotes the buffer
\* exactly when the store accepted it: with an error (the error next()
\* returned, when the snapshot middleware is in between) the aggregate is
\* left as it was and stays dirty; with nil the buffer is emptied,
\* committedSequenceNumber becomes sequenceNumber, and nothing else changes.
C11_CommitPromotesIffAccepted ==
  [][\A a \in DOMAIN aggs :
       (ret'.op = "Commit" /\ ret'.who = a) =>
         /\ ret'.err # Nil =>
              /\ aggs'[a] = aggs[a]
              /\ isDirty(aggs'[a])
         /\ (pc[a].at = "stored" /\ pc[a].err # Nil) => ret'.err = pc[a].err
         /\ ret'.err = Nil =>
              /\ aggs'[a] = [aggs[a] EXCEPT
                               !.uncomittedEvents = <<>>,
                               !.committedSequenceNumber = aggs[a].sequenceNumber]
              /\ ~isDirty(aggs'[a])]_vars

\* C11 case: a Commit of two events through the snapshot middleware was
\* refused by the store and the aggregate still holds both.
C11_Witness ==
  \E a \in DOMAIN aggs :
    /\ ret.op = "Commit"
    /\ ret.who = a
    /\ ret.err # Nil
    /\ aggs[a].eventStore = "snap"
    /\ Len(aggs[a].uncomittedEvents) = 2
    /\ aggs[a].committedSequenceNumber >= 1

\* C12: Run returns the error of Refresh without running the callback or
\* entering Commit when Refresh fails; returns the callback's error without
\* entering Commit when the callback fails; and enters Commit, after the
\* callback ran on the refreshed aggregate, only when both returned nil.
C12_RunOrder ==
  [][\A a \in DOMAIN aggs :
       (ret'.op \in {"Run", "Handle"} /\ ret'.who = a) =>
         /\ isDirty(aggs[a]) =>
              /\ ret'.err = IF aggs[a].eventStore = "snap"
                              THEN SnapErrorModified ELSE StoreErrorModified
              /\ aggs'[a] = aggs[a]
              /\ pc'[a].at = "idle"
         /\ (~isDirty(aggs[a]) /\ ret'.err # Nil) =>
              /\ ret'.err \in {ClosureError, UnsupportedCommandError,
                               HandlerError}
              /\ pc'[a].at = "idle"
         /\ ret'.err = Nil =>
              /\ ~isDirty(aggs[a])
              /\ pc'[a].at = "commit"
         /\ (~isDirty(aggs[a]) /\ aggs[a].eventStore = "kv") =>
              aggs'[a].committedSequenceNumber = Len(streams[aggs[a].key])
         /\ streams' = streams]_vars

\* C12 case: Run refreshed two durable events, its callback applied an
\* event and then failed, and Commit was not entered.
C12_Witness ==
  \E a \in DOMAIN aggs :
    /\ ret.op = "Run"
    /\ ret.who = a
    /\ ret.err = ClosureError
    /\ Len(ret.replayed) = 2
    /\ Len(aggs[a].uncomittedEvents) = 1
    /\ pc[a].at = "idle"

\* C13: for a clean aggregate, a command without a handler and a command
\* its handler rejects make handleInternal return an error with the
\* aggregate untouched; the Handle step that returns such an error leaves
\* the aggregate as Refresh left it, with an empty buffer, does not enter
\* Commit and changes no stream.
C13_HandleFailureBuffersNothing ==
  [][\A a \in DOMAIN aggs :
       ~isDirty(aggs[a]) =>
         LET r == RefreshOp(snaps, params, streams, aggs[a])
         IN /\ \A c \in Commands :
                 (c.rejected \/ c.goType \notin {InitializeCommandT,
                                                  IncrementCommandT})
                 => /\ handleInternal(r.agg, c).err # Nil
                    /\ handleInternal(r.agg, c).agg = r.agg
            /\ (/\ ret'.op = "Handle"
                /\ ret'.who = a
                /\ ret'.err \in {UnsupportedCommandError, HandlerError})
               => /\ aggs'[a] = r.agg
                  /\ aggs'[a].uncomittedEvents = <<>>
                  /\ aggs'[a].sequenceNumber = aggs'[a].committedSequenceNumber
                  /\ aggs[a].eventStore = "kv" =>
                       aggs'[a].sequenceNumber = Len(streams[aggs[a].key])
                  /\ pc'[a].at = "idle"
                  /\ streams' = streams]_vars

\* C13 case: Handle refreshed a durable event and its handler rejected the
\* command.
C13_Witness ==
  \E a \in DOMAIN aggs :
    /\ ret.op = "Handle"
    /\ ret.who = a
    /\ ret.err = HandlerError
    /\ Len(ret.replayed) >= 1
    /\ aggs[a].uncomittedEvents = <<>>
    /\ pc[a].at = "idle"

(* ------------------- properties of event application ------------------- *)
\* The event an ApplyEvent step of a appended.
Applied(a) == aggs'[a].uncomittedEvents[Len(aggs'[a].uncomittedEvents)]

\* The label of an event's type: the last segment of the type's name.
Label(e) == <<e.goType[Len(e.goType)]>>

\* C14: an ApplyEvent step with an event whose type is not registered, or
\* is registered but has no replay routine under its label, adds one to
\* sequenceNumber, appends the event to the buffer, and changes nothing else
\* of the aggregate, which is then dirty.
C14_UnmappedEventOnlyAdvances ==
  [][\A a \in DOMAIN aggs :
       (/\ ret'.op = "ApplyEvent"
        /\ ret'.who = a
        /\ \/ ~Registered(Applied(a))
           \/ Label(Applied(a)) \notin DOMAIN aggs[a].eventReplay)
       => /\ aggs'[a] =
               [aggs[a] EXCEPT
                  !.sequenceNumber = aggs[a].sequenceNumber + 1,
                  !.uncomittedEvents = Append(aggs[a].uncomittedEvents,
                                              Applied(a))]
          /\ isDirty(aggs'[a])]_vars

\* C14 case: an unregistered event and then a registered one without a
\* replay routine under its label were applied after one durable event.
C14_Witness ==
  \E a \in DOMAIN aggs :
    /\ ret.op = "ApplyEvent"
    /\ ret.who = a
    /\ Len(aggs[a].uncomittedEvents) = 2
    /\ ~Registered(aggs[a].uncomittedEvents[1])
    /\ Registered(aggs[a].uncomittedEvents[2])
    /\ Label(aggs[a].uncomittedEvents[2]) \notin DOMAIN aggs[a].eventReplay
    /\ aggs[a].committedSequenceNumber = 1
    /\ aggs[a].sequenceNumber = 3

\* C15: after AutomaticWireup the Replay methods of the prescribed shape are
\* stored under the labels GetEventType returns for their registered
\* parameter types, and an ApplyEvent step of such an event runs the method
\* once: ReplayInitializeEvent sets TargetValue, ReplayIncrementEvent adds
\* to CurrentCount.
C15_ReplayDispatch ==
  [][\A a \in DOMAIN aggs :
       (/\ ret'.op = "ApplyEvent"
        /\ ret'.who = a
        /\ aggs[a].eventReplay = buildReplayMappings(SimpleAggregateMethods)
        /\ Registered(Applied(a)))
       => /\ GetEventType(counterRegistry, Applied(a)).eventType
               \in DOMAIN aggs[a].eventReplay
          /\ Applied(a).goType = InitializeEventT =>
               aggs'[a].TargetValue = Applied(a).data
          /\ Applied(a).goType = IncrementEventT =>
               aggs'[a].CurrentCount = aggs[a].CurrentCount + Applied(a).data]_vars

C16_RetryBounded ==
  /\ Len(retry.results) <= retry.limit
  /\ (retry.running /\ retry.limit <= 0) => retry.results = <<>>

\* C17: every invocation of body but the last returned a ConcurrencyFault;
\* Retry has returned exactly when the last invocation returned nil or an
\* error that is not a ConcurrencyFault, or the limit-th invocation returned
\* a ConcurrencyFault; and what it returned is what the last invocation
\* returned.
C17_RetryOnlyOnFault ==
  LET n == Len(retry.results)
  IN /\ \A i \in 1..(n - 1) : IsConcurrencyFault(retry.results[i])
     /\ n >= 1 =>
          (retry.returned <=>
             \/ retry.results[n] = Nil
             \/ ~IsConcurrencyFault(retry.results[n])
             \/ n = retry.limit)
     /\ retry.returned => /\ n >= 1
                          /\ retry.value = retry.results[n]
     /\ n = 0 => ~retry.returned

\* C17 case: body returned a ConcurrencyFault three times under limit 3 and
\* Retry returned the third.
C17_Witness ==
  /\ retry.returned
  /\ retry.limit = 3
  /\ Len(retry.results) = 3
  /\ IsConcurrencyFault(retry.value)
  /\ retry.value.EventSequence = 3

(* ------------------ properties of the middleware wrapper --------------- *)
\* What a call through the middlewares m1..mk must have entered: mk first,
\* then each one registered just before, as long as the one entered called
\* next, and the inner store after m1.
EnteredLifo(list, trace) ==
  LET k == Len(list)
      stops == {j \in 1..k : ~list[k - j + 1].callsNext}
      depth == IF stops = {} THEN k + 1
               ELSE CHOOSE j \in stops : \A i \in stops : j <= i
  IN /\ Len(trace) = depth
     /\ \A j \in 1..depth :
          trace[j] = IF j = k + 1 THEN "inner" ELSE list[k - j + 1].name

\* C18: a CommitEvents (Refresh) call on the wrapper entered the commit
\* (refresh) middlewares last registered first, each entered by the next of
\* the one registered after it, and reached the inner store exactly when
\* every middleware called next.
C18_LifoChain ==
  /\ wrap.op = "CommitEvents" => EnteredLifo(wrap.commit, wrap.trace)
  /\ wrap.op = "Refresh" => EnteredLifo(wrap.refresh, wrap.trace)

\* C18 case: CommitEvents went through three middlewares, B registered
\* last, and reached the inner store.
C18_Witness ==
  /\ wrap.op = "CommitEvents"
  /\ Len(wrap.commit) = 3
  /\ wrap.commit[1].name = "A"
  /\ wrap.commit[3].name = "B"
  /\ Len(wrap.trace) = 4
  /\ wrap.trace[1] = "B"
  /\ wrap.trace[4] = "inner"
  /\ Len(wrap.refresh) < 3

\* C19: a Close call on the wrapper invoked every registered cleanup once,
\* in registration order, and returned the first cleanup error.
C19_CloseRunsAllCleanups ==
  wrap.op = "Close" =>
    LET k == Len(wrap.cleanup)
        failing == {j \in 1..k : wrap.cleanup[j].fails}
    IN /\ Len(wrap.trace) >= k
       /\ \A j \in 1..k : wrap.trace[j] = wrap.cleanup[j].name
       /\ failing # {} =>
            wrap.err = CleanupError(
              wrap.cleanup[CHOOSE j \in failing : \A i \in failing : j <= i].name)

(* ------------- properties of the snapshot middleware (cont.) ----------- *)
\* The multiples of the interval in start+1 .. end.
MultiplesWithin(start, end, interval) ==
  {m \in (start + 1)..end : m % interval = 0}

\* A Commit through the snapshot middleware returns nil in this step.
SnapCommitSucceeds(a) ==
  /\ pc[a].at = "stored"
  /\ pc'[a].at = "idle"
  /\ ret'.err = Nil

\* C21 as stated: in interval mode every successful commit through the
\* middleware that takes the stream to or past a multiple m of the interval
\* puts a snapshot with sequence exactly m.
C21_SnapAtEveryMultiple ==
  [][\A a \in DOMAIN aggs :
       (SnapCommitSucceeds(a) /\ ~params.Lazy) =>
         LET start == aggs[a].committedSequenceNumber
             end == start + Len(aggs[a].uncomittedEvents)
         IN \A m \in MultiplesWithin(start, end, params.SnapInterval) :
              snaps'[aggs[a].key].Sequence = m]_vars

\* C21: in interval mode every successful commit through the middleware
\* that takes the stream from start to or past a multiple m of the interval
\* puts one snapshot, at the sequence end the commit reached, so that
\* start < m <= end; the snapshot is at m exactly when the commit ends on
\* m, as it does when every commit holds one event, and a commit that does
\* not reach a multiple puts nothing.
C21_SnapAtCommitEnd ==
  [][\A a \in DOMAIN aggs :
       (SnapCommitSucceeds(a) /\ ~params.Lazy) =>
         LET k == aggs[a].key
             start == aggs[a].committedSequenceNumber
             n == Len(aggs[a].uncomittedEvents)
             end == start + n
             reached == MultiplesWithin(start, end, params.SnapInterval)
         IN /\ reached # {} =>
                 /\ snaps'[k].Sequence = end
                 /\ \A m \in reached : start < m /\ m <= snaps'[k].Sequence
                 /\ n = 1 => snaps'[k].Sequence \in reached
            /\ reached = {} => snaps'[k] = snaps[k]]_vars

\* C21 case: in interval mode a commit of two events from sequence 1 went
\* past the multiple 2 and its snapshot is at 3.
C21_Witness ==
  \E a \in DOMAIN aggs :
    /\ ret.op = "Commit"
    /\ ret.who = a
    /\ ret.err = Nil
    /\ ~params.Lazy
    /\ aggs[a].eventStore = "snap"
    /\ lastCommit[a].s = 1
    /\ Len(lastCommit[a].evs) = 2
    /\ 2 \in MultiplesWithin(1, 3, params.SnapInterval)
    /\ snaps[aggs[a].key].Sequence = 3

\* C22: in interval mode a Refresh of a fresh aggregate through the snapshot
\* middleware returns what a Refresh of a fresh aggregate through the engine
\* alone returns and leaves the same derived state, sequenceNumber and
\* committedSequenceNumber; with a snapshot at S of a stream of N events the
\* snapshot is restored and ReplayEvent receives exactly the events stored
\* at S+1..N, in order.
C22_SnapRefreshEquivalent ==
  [][\A a \in DOMAIN aggs :
       LET k == aggs[a].key
           N == Len(streams[k])
           S == snaps[k].Sequence
           direct == EngineRefresh(streams, NewAggregate(k, "kv", "defined"))
       IN (/\ ret'.op = "Refresh"
           /\ ret'.who = a
           /\ ~params.Lazy
           /\ aggs[a] = NewAggregate(k, "snap", "defined"))
          => /\ ret'.err = direct.err
             /\ aggs'[a].CurrentCount = direct.agg.CurrentCount
             /\ aggs'[a].TargetValue = direct.agg.TargetValue
             /\ aggs'[a].sequenceNumber = direct.agg.sequenceNumber
             /\ aggs'[a].committedSequenceNumber
                  = direct.agg.committedSequenceNumber
             /\ aggs'[a].sequenceNumber = N
             /\ ret'.restored <=> snaps[k] # NoSnap
             /\ snaps[k] # NoSnap =>
                  /\ S <= N
                  /\ Len(ret'.replayed) = N - S
                  /\ \A i \in 1..(N - S) :
                       /\ ret'.replayed[i].stored = S + i
                       /\ Holds(streams, k, S + i, ret'.replayed[i].event)]_vars

\* C22 case: in interval mode a fresh aggregate was refreshed through the
\* middleware from a snapshot at 2 of a stream of 3 events whose state is
\* not the zero state, and one event was replayed on top of it.
C22_Witness ==
  \E a \in DOMAIN aggs :
    /\ ret.op = "Refresh"
    /\ ret.who = a
    /\ ret.err = Nil
    /\ ret.restored
    /\ ~params.Lazy
    /\ aggs[a].eventStore = "snap"
    /\ snaps[aggs[a].key].Sequence = 2
    /\ snaps[aggs[a].key].State.current_count > 0
    /\ Len(streams[aggs[a].key]) = 3
    /\ Len(ret.replayed) = 1
    /\ aggs[a].sequenceNumber = 3
    /\ aggs[a].CurrentCount > snaps[aggs[a].key].State.current_count

\* C23: in lazy mode a Refresh of a clean aggregate through the middleware,
\* when the cache holds a snapshot for the key, restores it and returns nil
\* without going to the inner store: nothing is replayed and the aggregate
\* is at the snapshot's sequence and state whatever the stream holds; when
\* the cache holds none, the outcome is that of the engine's Refresh.
C23_LazyRefreshStopsAtSnapshot ==
  [][\A a \in DOMAIN aggs :
       LET k == aggs[a].key
           snap == snaps[k]
           inner == EngineRefresh(streams, aggs[a])
       IN (/\ ret'.op = "Refresh"
           /\ ret'.who = a
           /\ params.Lazy
           /\ aggs[a].eventStore = "snap"
           /\ ~isDirty(aggs[a]))
          => /\ snap # NoSnap =>
                  /\ ret'.err = Nil
                  /\ ret'.restored
                  /\ ret'.replayed = <<>>
                  /\ aggs'[a].sequenceNumber = snap.Sequence
                  /\ aggs'[a].committedSequenceNumber = snap.Sequence
                  /\ aggs'[a].CurrentCount = snap.State.current_count
                  /\ aggs'[a].TargetValue = snap.State.target_value
             /\ snap = NoSnap =>
                  /\ ~ret'.restored
                  /\ ret'.err = inner.err
                  /\ ret'.replayed = inner.replayed
                  /\ aggs'[a] = inner.agg]_vars

\* C23 case: in lazy mode an aggregate was refreshed from a snapshot at 1
\* while the inner store holds 3 events, and it is at sequence 1.
C23_Witness ==
  \E a \in DOMAIN aggs :
    /\ ret.op = "Refresh"
    /\ ret.who = a
    /\ ret.restored
    /\ params.Lazy
    /\ aggs[a].eventStore = "snap"
    /\ snaps[aggs[a].key].Sequence = 1
    /\ Len(streams[aggs[a].key]) = 3
    /\ aggs[a].sequenceNumber = 1

\* C24: when a Commit through the snapshot middleware returns, Purge was
\* called for the writer's key exactly when lazy is true and next() failed
\* with a ConcurrencyFault, and the key then has no snapshot; with lazy
\* false, or next() failing with another kind of error, the cache is left as
\* it was, and the error of next() is what Commit returns.
C24_PurgeOnlyOnLazyFault ==
  [][\A a \in DOMAIN aggs :
       (ret'.op = "Commit" /\ ret'.who = a /\ aggs[a].eventStore = "snap") =>
         LET k == aggs[a].key
             errInner == IF pc[a].at = "stored" THEN pc[a].err
                         ELSE CommitCheck(streams, WriterOf(aggs[a]))
             fault == /\ errInner # Nil
                      /\ errInner.kind = "ConcurrencyFault"
             should == params.Lazy /\ fault
         IN /\ SnapCommitTail(snaps, params, aggs[a], errInner).purgeCalled
                 <=> should
            /\ should => snaps' = [snaps EXCEPT ![k] = NoSnap]
            /\ (errInner # Nil /\ ~should) => snaps' = snaps
            /\ errInner # Nil => ret'.err = errInner]_vars

\* C24 case: in lazy mode a Commit through the middleware returned a
\* ConcurrencyFault and the key, whose stream holds events, has no snapshot.
C24_Witness ==
  \E a \in DOMAIN aggs :
    /\ ret.op = "Commit"
    /\ ret.who = a
    /\ ret.err # Nil
    /\ ret.err.kind = "ConcurrencyFault"
    /\ params.Lazy
    /\ aggs[a].eventStore = "snap"
    /\ aggs[a].committedSequenceNumber = 1
    /\ Len(streams[aggs[a].key]) >= 2
    /\ snaps[aggs[a].key] = NoSnap

\* C25, the scenario from a stale cache: with lazy snapshots, a cached
\* snapshot at N and a stream that has grown past N, an attempt (fresh
\* aggregate, refresh, one event, commit) fails with the ConcurrencyFault
\* for N+1, writes nothing and leaves the key without a cache entry; the next
\* attempt refreshes from the inner store to the stream's length L, commits
\* its event at L+1 and returns nil; so Retry with limit 2 running the
\* attempts returns nil after its second invocation.
StaleCacheRecovers(cache, data, k) ==
  LET N == cache[k].Sequence
      L == Len(data[k])
      first == RetryBody(cache, params, data, k)
      second == RetryBody(first.snaps, params, first.streams, k)
      loop == RetryLoop(RetryLoop(RetryEntry(2), first.err), second.err)
  IN (params.Lazy /\ cache[k] # NoSnap /\ L > N) =>
       /\ first.err = [kind |-> "ConcurrencyFault", AggregateKey |-> k,
                       EventSequence |-> N + 1]
       /\ first.streams = data
       /\ first.snaps = [cache EXCEPT ![k] = NoSnap]
       /\ second.err = Nil
       /\ second.agg.committedSequenceNumber = L + 1
       /\ Len(second.streams[k]) = L + 1
       /\ Holds(second.streams, k, L + 1, Ev(IncrementEventT, 1, TRUE))
       /\ loop.returned
       /\ loop.value = Nil
       /\ Len(loop.results) = 2

\* C25: the stale-cache scenario holds whenever another writer has written
\* directly to the inner store, and whenever a Commit through the lazy
\* middleware returns a ConcurrencyFault the key has no cache entry
\* afterwards and an attempt made then, with no other writer in between,
\* refreshes to the stream's length and commits at the next sequence.
C25_LazyFaultPurgesThenRetrySucceeds ==
  [][/\ (ret'.op = "CommitEvents" /\ ret'.err = Nil) =>
          \A k \in AggKeys : StaleCacheRecovers(snaps', streams', k)
     /\ \A a \in DOMAIN aggs :
          (/\ ret'.op = "Commit"
           /\ ret'.who = a
           /\ params.Lazy
           /\ aggs[a].eventStore = "snap"
           /\ ret'.err.kind = "ConcurrencyFault")
          => LET k == aggs[a].key
                 L == Len(streams'[k])
                 attempt == RetryBody(snaps', params, streams', k)
             IN /\ snaps'[k] = NoSnap
                /\ attempt.err = Nil
                /\ attempt.agg.committedSequenceNumber = L + 1
                /\ Len(attempt.streams[k]) = L + 1]_vars

\* C25 case: in lazy mode an aggregate restored from the snapshot at 1 while
\* the stream held 2 events committed one event and got the ConcurrencyFault
\* for sequence 2; the key has no cache entry and an attempt made now
\* commits at 3.
C25_Witness ==
  \E a \in DOMAIN aggs :
    /\ ret.op = "Commit"
    /\ ret.who = a
    /\ ret.err = [kind |-> "ConcurrencyFault",
                  AggregateKey |-> aggs[a].key, EventSequence |-> 2]
    /\ params.Lazy
    /\ aggs[a].eventStore = "snap"
    /\ aggs[a].committedSequenceNumber = 1
    /\ Len(aggs[a].uncomittedEvents) = 1
    /\ Len(streams[aggs[a].key]) = 2
    /\ snaps[aggs[a].key] = NoSnap
    /\ RetryBody(snaps, params, streams, aggs[a].key).agg.committedSequenceNumber = 3

\* C26: a Refresh through the snapshot middleware of a clean aggregate for
\* whose key Get returns a snapshot that RestoreSnapshot fails on returns
\* that error, not nil.
C26_RefreshReturnsRestoreError ==
  [][\A a \in DOMAIN aggs :
       LET snap == snaps[aggs[a].key]
       IN (/\ ret'.op = "Refresh"
           /\ ret'.who = a
           /\ aggs[a].eventStore = "snap"
           /\ ~isDirty(aggs[a])
           /\ snap # NoSnap
           /\ RestoreSnapshotError(snap.State) # Nil)
          => /\ ret'.err # Nil
             /\ ret'.err = RestoreSnapshotError(snap.State)]_vars

(* ------------------- properties of the publish middleware -------------- *)
\* The calls of Publish made in this step.
NewlyPublished == SubSeq(pub'.log, Len(pub.log) + 1, Len(pub'.log))

\* A CommitEvents call through the publish middleware returns in this step.
PublishCommitReturns == ret'.op = "CommitEvents" /\ ret'.who = "publish"

\* C27: a CommitEvents call of n events from committed sequence s through
\* the publish middleware calls Publish only when next() returned nil; when
\* no Publish fails it then calls it once per event, the i-th call with the
\* key and the sequence s+i, which is where the store holds that event, so
\* in buffer order and s+1 first, s+n last; when next() returned an error
\* that error is returned and Publish is not called.  A Refresh through the
\* middleware is the engine's Refresh and publishes nothing.
C27_PublishAfterStore ==
  [][/\ PublishCommitReturns =>
          LET k == ret'.key
              s == ret'.s
              n == ret'.n
              new == NewlyPublished
              nextFailed == ret'.err \notin {Nil, PublishError}
          IN /\ Len(pub'.log) >= Len(pub.log)
             /\ SubSeq(pub'.log, 1, Len(pub.log)) = pub.log
             /\ nextFailed => new = <<>>
             /\ new # <<>> => /\ Len(streams[k]) = s
                              /\ Len(streams'[k]) = s + n
             /\ ret'.err = Nil =>
                  /\ Len(new) = n
                  /\ \A i \in 1..n :
                       /\ new[i].key = k
                       /\ new[i].seq = s + i
                       /\ new[i].err = Nil
                       /\ Holds(streams', k, s + i, new[i].event)
     /\ \A a \in DOMAIN aggs :
          (ret'.op = "Refresh" /\ ret'.who = a) =>
            /\ aggs'[a] = EngineRefresh(streams, aggs[a]).agg
            /\ ret'.err = EngineRefresh(streams, aggs[a]).err
            /\ pub' = pub
            /\ streams' = streams]_vars

\* C27 case: a commit of two events from sequence 1 returned nil and its
\* events were published with the sequences 2 and 3.
C27_Witness ==
  /\ ret.op = "CommitEvents"
  /\ ret.who = "publish"
  /\ ret.err = Nil
  /\ ret.s = 1
  /\ ret.n = 2
  /\ Len(pub.log) >= 2
  /\ pub.log[Len(pub.log) - 1].seq = 2
  /\ pub.log[Len(pub.log)].seq = 3
  /\ Len(streams[ret.key]) = 3

\* C28: when Publish fails for the i-th event of a commit of n events from
\* s, CommitEvents returns that error, the i-1 events before it were
\* published with s+1..s+i-1 and nothing is published after the failed
\* call, while all n events are in the store at s+1..s+n.
C28_PublishFailureAfterStore ==
  [][(PublishCommitReturns /\ \E j \in 1..Len(NewlyPublished) :
                                 NewlyPublished[j].err # Nil) =>
       LET k == ret'.key
           s == ret'.s
           n == ret'.n
           new == NewlyPublished
           i == Len(new)
       IN /\ i <= n
          /\ new[i].err = PublishError
          /\ ret'.err = new[i].err
          /\ \A j \in 1..i : /\ new[j].seq = s + j
                             /\ Holds(streams', k, s + j, new[j].event)
          /\ \A j \in 1..(i - 1) : new[j].err = Nil
          /\ Len(streams[k]) = s
          /\ Len(streams'[k]) = s + n
          /\ \A j \in 1..n : streams'[k][s + j].sequence = s + j]_vars

\* C28 case: Publish failed for the first of two events committed from
\* sequence 0; both are in the store and the second was not published.
C28_Witness ==
  /\ ret.op = "CommitEvents"
  /\ ret.who = "publish"
  /\ ret.err = PublishError
  /\ ret.s = 0
  /\ ret.n = 2
  /\ Len(streams[ret.key]) = 2
  /\ Len(pub.log) = 1
  /\ pub.log[1].err = PublishError
  /\ pub.log[1].seq = 1

(* --------------------- properties of the distributor ------------------- *)
\* The calls of Handle made in this step.
NewlyReceived ==
  SubSeq(dist'.received, Len(dist.received) + 1, Len(dist'.received))

\* A call of the distributor's Publish returns in this step.
DistributorPublishReturns == ret'.op = "Publish" /\ ret'.who = "dist"

\* C29: a Publish on the distributor invokes a handler only if the last of
\* the Start and Stop calls made so far was Start; before the first Start
\* and after a Stop it invokes none and returns nil.
C29_PublishGatedByStart ==
  [][DistributorPublishReturns =>
       /\ NewlyReceived # <<>> => dist.lastStartStop = "Start"
       /\ dist.lastStartStop # "Start" =>
            /\ dist'.received = dist.received
            /\ ret'.err = Nil]_vars

\* C29 case: after Start, a delivery and Stop, a registered event was
\* published to a distributor with a handler and nothing more was received.
C29_Witness ==
  /\ ret.op = "Publish"
  /\ ret.err = Nil
  /\ dist.lastStartStop = "Stop"
  /\ Len(dist.handlers) = 1
  /\ ~dist.handlers[1].fails
  /\ Len(dist.received) = 1
  /\ dist.lastPublished = <<Ev(IncrementEventT, 1, TRUE)>>

\* The handlers Handle is called on for a registered event: those up to and
\* including the first that fails.
RECURSIVE Invoked(_)
Invoked(handlers) ==
  IF handlers = <<>> THEN <<>>
  ELSE IF Head(handlers).fails THEN <<Head(handlers)>>
  ELSE <<Head(handlers)>> \o Invoked(Tail(handlers))

\* C30: on a started distributor, whatever the number of handlers, Publish
\* of an event the registry does not know returns an error and invokes no
\* handler; Publish of a registered event invokes the handlers in
\* registration order up to the first that fails, each with the key, the
\* sequence and the event's label, and returns that handler's error, or nil
\* when none fails.
C30_UnknownEventRejected ==
  [][(DistributorPublishReturns /\ dist.enabled) =>
       LET event == dist'.lastPublished[1]
           new == NewlyReceived
           invoked == Invoked(dist.handlers)
       IN /\ ~Registered(event) => /\ ret'.err # Nil
                                   /\ new = <<>>
          /\ Registered(event) =>
               /\ Len(new) = Len(invoked)
               /\ \A i \in 1..Len(invoked) :
                    /\ new[i].handler = invoked[i].name
                    /\ new[i].event.Key = ret'.key
                    /\ new[i].event.Sequence = ret'.s
                    /\ new[i].event.Data = event
               /\ ret'.err # Nil <=>
                    (invoked # <<>> /\ invoked[Len(invoked)].fails)]_vars
(* ----------------------- properties of the tailer ---------------------- *)
\* A pass of the tailer's loop: the cursor moved on by one operation.
TailerStepped == tail.running /\ tail'.running /\ tail'.cursor = tail.cursor + 1

\* C31: the tailer calls UpdatePosition(p) only with the timestamp p of an
\* operation whose Publish has just returned nil: a pass that skips a
\* filtered or undecodable operation, or whose Publish failed, neither calls
\* UpdatePosition nor changes the tracker; and the positions the tracker
\* stores follow the order of the feed (each one is later than the last).
C31_PositionOnlyAfterPublish ==
  [][/\ TailerStepped =>
        /\ tail'.last.updated =>
             /\ tail'.last.outcome = "published"
             /\ tail'.last.position = tail'.cursor
             /\ tail.feed[tail'.cursor] = "insert"
             /\ tail'.cursor \in tail'.published
        /\ tail'.last.outcome # "published" =>
             /\ ~tail'.last.updated
             /\ tail'.tracker = tail.tracker
     /\ tail'.tracker # tail.tracker =>
        /\ TailerStepped
        /\ tail'.last.updated
        /\ tail'.tracker.position = tail'.cursor
        /\ tail.tracker.stored => tail'.tracker.position > tail.tracker.position
    ]_vars

\* The tailer skipped a first operation that was not published, then published
\* the second and stored its timestamp.
C31_Witness ==
  /\ tail.last.outcome = "published"
  /\ tail.last.updated
  /\ tail.tracker.stored
  /\ tail.tracker.position = 2
  /\ 1 \notin tail.published
\* C32: the tailer delivers at least once: every in-scope insert of the
\* oplog (a tailer that starts at the trim horizon has all of them in scope)
\* is eventually published successfully, also one whose Publish failed, when
\* the publisher eventually succeeds and the tailer is stopped and restarted
\* from the tracker's position.
C32_EveryInsertEventuallyPublished ==
  \A i \in 1..MaxFeed :
    [](( /\ tail.tracker.initial = InitialPositionTrimHorizon
         /\ i <= Len(tail.feed)
         /\ tail.feed[i] = "insert" ) => <>(i \in tail.published))
(* ------------- properties of the store under concurrency --------------- *)
\* C33: the in-memory store serialises access to its map of streams: when two
\* goroutines call CommitEvents for the same key, no two calls are both
\* acknowledged (return nil) for the same sequence number, and no
\* acknowledged event is lost or overwritten: it is in the stream at its
\* sequence number.
C33_MemoryStoreSerialised ==
  /\ \A a, b \in mem.acked : a.sequence = b.sequence => a.g = b.g
  /\ \A a \in mem.acked :
       /\ a.sequence <= Len(mem.streams["k1"])
       /\ mem.streams["k1"][a.sequence].body.payload = a.g
\* C34: with the DynamoDB driver a CommitEvents of several events that
\* interleaves with another writer is still atomic: a call that returns a
\* ConcurrencyFault has left none of its events in the table, and the fault
\* names the first sequence of the call's range.
C34_DynamoCommitAtomic ==
  IsConcurrencyFault(dyn.last.err) =>
    /\ dyn.last.put \cap dyn.table = {}
    /\ dyn.last.err.EventSequence = dyn.last.first + 1
\* C35: durable events are immutable and the order of a key's stream is the
\* order of the commits: no step of a CommitEvents or of a Refresh, whether
\* it succeeds or fails, changes or removes an event that is in the store;
\* every stream only grows by appending at its end, and the event at position
\* i is the one stored with sequence i.
C35_DurableEventsImmutable ==
  [][\A k \in Keys :
       /\ Len(streams'[k]) >= Len(streams[k])
       /\ SubSeq(streams'[k], 1, Len(streams[k])) = streams[k]
       /\ \A i \in 1..Len(streams'[k]) : streams'[k][i].sequence = i
    ]_vars

\* A Commit has just failed on a stream that holds events of several commits.
C35_Witness ==
  /\ Len(streams["k1"]) >= 2
  /\ \E a \in DOMAIN aggs :
       /\ lastCommit[a].called
       /\ IsConcurrencyFault(lastCommit[a].err)
(* ------------- properties of the snapshot middleware (writers) --------- *)
\* The state a SimpleAggregate of key k has after the first n events of the
\* stream of k were replayed on a new instance.
StateAfter(data, k, n) ==
  LET loaded == SubSeq(fetchEvents(data, k, 0), 1, n)
      toApply == [i \in 1..n |-> DecodeEvent(counterRegistry, loaded[i])]
  IN SnapshotOf(ReplayAll(NewAggregate(k, "snap", "defined"), toApply))

\* C36: whatever the interleaving of the commits that writers make through
\* the snapshot middleware (lazy or interval), the snapshot stored for a key
\* is never ahead of the stream (its sequence is at most the number of durable
\* events) and its state is the state after events 1..sequence.
C36_SnapshotIsReplayPrefix ==
  \A k \in Keys :
    snaps[k] # NoSnap =>
      /\ snaps[k].Sequence <= Len(streams[k])
      /\ snaps[k].State = StateAfter(streams, k, snaps[k].Sequence)
\* Both writers have committed through the middleware with a snapshot
\* written, and the snapshot that was stored last is behind the stream.
C36_Witness ==
  /\ snaps["k1"] # NoSnap
  /\ snaps["k1"].Sequence >= 1
  /\ snaps["k1"].Sequence < Len(streams["k1"])
  /\ \A a \in DOMAIN aggs :
       lastCommit[a].called /\ lastCommit[a].err = Nil
                            /\ lastCommit[a].evs # <<>>
\* C37: in interval mode, with a single writer per key that commits one
\* commit after the other from the empty stream, after every successful
\* commit the stored snapshot's sequence S and the stream's length N satisfy
\* floor(N / interval) * interval <= S <= N whenever N >= interval.
C37_SnapshotWithinInterval ==
  \A a \in DOMAIN aggs :
    ( /\ ~params.Lazy
      /\ lastCommit[a].called
      /\ lastCommit[a].err = Nil
      /\ Len(streams[aggs[a].key]) >= params.SnapInterval ) =>
      LET N == Len(streams[aggs[a].key])
          S == get(snaps, aggs[a].key).Sequence
      IN /\ (N \div params.SnapInterval) * params.SnapInterval <= S
         /\ S <= N
(* ------------------- properties of a failed Commit --------------------- *)
\* C38: whenever Commit returns an error through the middlewares of the
\* wrapper over the key-value engine, none of the buffered events of the
\* aggregate is durable: the call has left the store as it was, so the buffer
\* the aggregate keeps holds no event that is already stored.
C38_FailedCommitStoresNothing ==
  [][(ret'.op = "CommitEvents" /\ ret'.who = "publish" /\ ret'.err # Nil)
       => streams' = streams]_vars
(* ------------- properties of the snapshot commit wrapper --------------- *)
\* C39: whenever next() fails inside the commit wrapper of the snapshot
\* middleware, the wrapper returns exactly the error next() returned; a
\* ConcurrencyFault of the store is a ConcurrencyFault for the caller, so
\* that Retry calls its body again, in lazy mode too and whatever Purge
\* returned.
C39_WrapperReturnsInnerError ==
  [][\A a \in DOMAIN aggs :
       ( /\ pc[a].at = "stored"
         /\ pc[a].err # Nil
         /\ pc'[a].at = "idle" ) =>
         /\ lastCommit'[a].err = pc[a].err
         /\ IsConcurrencyFault(pc[a].err) =>
              ~RetryLoop(RetryEntry(MaxRetryLimit), lastCommit'[a].err).returned
    ]_vars

====
